---- MODULE Spec2Model ----
(***************************************************************************)
(* A model of the Shake Shack ordering assistant: the session cart of      *)
(* order.py, the menu lookup of menu.py / database.py and the message      *)
(* router of llm.py.  Text is modelled by TLA+ strings, compared and       *)
(* searched character by character; prices are integer cents.              *)
(***************************************************************************)
EXTENDS Integers, Sequences, FiniteSets, TLC

VARIABLES
    order,           \* st.session_state.order: the cart lines, in insertion order
    total_price,     \* st.session_state.total_price, in cents
    update_sidebar,  \* st.session_state.update_sidebar
    openai_api_key,  \* st.session_state.openai_api_key, "" when absent
    OPENAI_API_KEY,  \* the environment's OPENAI_API_KEY, "" when absent
    menu_cache,      \* st.session_state.menu_cache, <<>> when absent or empty
    cache_data,      \* the entry st.cache_data holds for get_all_menu_items, <<>> when none
    last             \* the last call: its name, its arguments and its result

vars == <<order, total_price, update_sidebar, openai_api_key, OPENAI_API_KEY,
          menu_cache, cache_data, last>>

keys == <<openai_api_key, OPENAI_API_KEY>>

menus == <<menu_cache, cache_data>>

-----------------------------------------------------------------------------
(* Bounds of the model *)

\* the largest quantity a caller passes and a line reaches
MaxQty == 2

-----------------------------------------------------------------------------
(* Text *)

CharAt(s, i) == SubSeq(s, i, i)

\* the lower-case letter of each upper-case letter
LowerOf ==
    [A |-> "a", B |-> "b", C |-> "c", D |-> "d", E |-> "e", F |-> "f", G |-> "g",
     H |-> "h", I |-> "i", J |-> "j", K |-> "k", L |-> "l", M |-> "m", N |-> "n",
     O |-> "o", P |-> "p", Q |-> "q", R |-> "r", S |-> "s", T |-> "t", U |-> "u",
     V |-> "v", W |-> "w", X |-> "x", Y |-> "y", Z |-> "z"]

UpperChars == DOMAIN LowerOf
LowerChars == {LowerOf[u] : u \in UpperChars}

\* str.lower() on one character
LowerChar(c) == IF c \in UpperChars THEN LowerOf[c] ELSE c

\* str.lower() on the characters i..j of s
RECURSIVE LowerRange(_, _, _)
LowerRange(s, i, j) ==
    IF i > j THEN ""
    ELSE IF i = j THEN LowerChar(CharAt(s, i))
    ELSE LowerRange(s, i, (i + j) \div 2) \o LowerRange(s, (i + j) \div 2 + 1, j)

LowerFrom(s, i) == LowerRange(s, i, Len(s))

\* the characters  \s  matches and str.strip / str.split remove
IsSpace(c) == c \in {" ", "\t", "\n", "\r", "\f"}

RECURSIVE LStripFrom(_, _)
LStripFrom(s, i) ==
    IF i > Len(s) THEN ""
    ELSE IF IsSpace(CharAt(s, i)) THEN LStripFrom(s, i + 1)
    ELSE SubSeq(s, i, Len(s))

RECURSIVE RStripTo(_, _)
RStripTo(s, j) ==
    IF j < 1 THEN ""
    ELSE IF IsSpace(CharAt(s, j)) THEN RStripTo(s, j - 1)
    ELSE SubSeq(s, 1, j)

\* Python's  a in b  on strings
Contains(a, b) ==
    \E i \in 0..(Len(b) - Len(a)) : SubSeq(b, i + 1, i + Len(a)) = a

\* str.startswith, str.endswith
StartsWith(s, prefix) == Len(prefix) <= Len(s) /\ SubSeq(s, 1, Len(prefix)) = prefix
EndsWith(s, suffix) ==
    Len(suffix) <= Len(s) /\ SubSeq(s, Len(s) - Len(suffix) + 1, Len(s)) = suffix

\* str.replace(old, new) from position i on: up to the first occurrence of
\* old, then new, then the same after the occurrence
RECURSIVE ReplaceFrom(_, _, _, _)
ReplaceFrom(s, old, new, i) ==
    LET found == {p \in i..(Len(s) - Len(old) + 1) : SubSeq(s, p, p + Len(old) - 1) = old}
        first == CHOOSE p \in found : \A q \in found : p <= q
    IN  IF found = {} THEN SubSeq(s, i, Len(s))
        ELSE SubSeq(s, i, first - 1) \o new \o ReplaceFrom(s, old, new, first + Len(old))

Replace(s, old, new) == ReplaceFrom(s, old, new, 1)

-----------------------------------------------------------------------------
(* The texts of the model *)

\* the messages of the user
Messages == {"0 fries", "I want a Moon Burger", "show me the menu"}

\* messages that mention the menu, one of them in an order
MenuRequests == {"show me the menu", "Add fries from the MENU"}

IntentLabels ==
    {"cart_inquiry", "quantity_update", "order_placement", "price_inquiry",
     "remove_item", "general_question"}

\* utterances of the user that order_placement and the extractors are tried on
Utterances ==
    {"0 fries", "I want a Moon Burger", "I'll have 2 shackburgers and a fries",
     "fries", "Fries please", "add fries, add fries", "a ShackBurger please",
     "two shackburgers", "add ten fries"}

\* a label as the service may write it
UntidyLabel == " Order_Placement\n"

\* replies of the service to the prompts that ask for JSON
ItemsFries1 == "{\"items\": [{\"name\": \"Fries\", \"quantity\": 1}]}"
ItemsFries0 == "{\"items\": [{\"name\": \"Fries\", \"quantity\": 0}]}"
ItemsFriesNull == "{\"items\": [{\"name\": \"Fries\", \"quantity\": null}]}"
ItemsFries1BurgerNull ==
    "{\"items\": [{\"name\": \"Fries\", \"quantity\": 1}, {\"name\": \"ShackBurger\", \"quantity\": null}]}"
ItemsBurger1Fries1 ==
    "{\"items\": [{\"name\": \"ShackBurger\", \"quantity\": 1}, {\"name\": \"fries\", \"quantity\": 1}]}"
ItemsMoonBurger1 == "{\"items\": [{\"name\": \"Moon Burger\", \"quantity\": 1}]}"
ItemsFries1MoonBurger1 ==
    "{\"items\": [{\"name\": \"Fries\", \"quantity\": 1}, {\"name\": \"Moon Burger\", \"quantity\": 1}]}"
ItemsFries1Fries2 ==
    "{\"items\": [{\"name\": \"Fries\", \"quantity\": 1}, {\"name\": \"fries\", \"quantity\": 2}]}"
ItemsFenced == "~~~json\n{\"items\": [{\"name\": \"fries\", \"quantity\": 2}]}\n~~~"
ItemsUnfenced == "{\"items\": [{\"name\": \"fries\", \"quantity\": 2}]}"
ItemsNoQuantity == "{\"items\": [{\"name\": \"Fries\"}]}"
ItemsBroken == "{\"items\": [}"
NotJson == "Sorry, I can't help with that."

UpdateFries2 == "{\"is_update\": true, \"item_name\": \"Fries\", \"quantity\": 2}"
UpdateUnnamed0 == "{\"is_update\": true, \"item_name\": null, \"quantity\": 0}"
UpdateUnnamed2 == "{\"is_update\": true, \"item_name\": null, \"quantity\": 2}"
UpdateFriesNull == "{\"is_update\": true, \"item_name\": \"Fries\", \"quantity\": null}"
UpdateNone == "{\"is_update\": false, \"item_name\": null, \"quantity\": null}"

\* replies of the service to the prompts that ask for an item name
ItemNameTexts == {"Fries", "fries ", "Moon Burger", ""}

\* replies of the service in the general conversation
ChatTexts == {"Welcome to Shake Shack!", ""}

\* texts of llm_error_handler and process_message
ApiKeyIssue ==
    "There seems to be an issue with the API key. Please check that your API key is valid."
ConnectionTrouble ==
    "I'm having trouble connecting to the language model service. Please check your internet connection and try again."
FormatTrouble ==
    "I had trouble processing the response format. Please try rephrasing your request."
TroublePrefix == "I'm having trouble processing your request. "
TryAgain == "I'm having trouble processing your request. Please try again."

ProvideKeyNotice ==
    "Please provide your OpenAI API key in the sidebar to use the chat functionality."

DefaultKeyNotice ==
    "Using default API key. For personalized service, you can provide your own OpenAI API key in the sidebar."
SystemsTrouble ==
    "I'm having trouble connecting to our systems. Please try again in a moment."
NotSureWhichToChange ==
    "I'm not sure which item you want to change. Please specify the item name."
CouldNotIdentify ==
    "I couldn't identify the menu items you want to order. Could you please try again with the exact item name from our menu?"
NotSureWhichAsked ==
    "I'm not sure which item you're asking about. Could you please specify the name of the menu item?"
NotSureWhichToRemove ==
    "I'm not sure which item you want to remove. Could you please specify the exact item name?"

\* the texts handed to update_order_quantity and remove_from_order call by call
SearchTerms == {"cheeseburger", "Bacon", "FRIES", "Shake"}

\* the texts above and the ones derived from them, with their lower-case,
\* stripped and cleaned forms computed once
KnownTexts ==
    {"ShackBurger", "Cheeseburger", "Hamburger", "Avocado Bacon Burger", "SmokeShack",
     "Bacon Cheeseburger", "Fries", "Vanilla Shake", "Chocolate Shake",
     "Strawberry Shake", "Topo Chico", "fries", "moon burger", "order_placement",
     "Order_Placement"}
    \cup Messages \cup Utterances \cup IntentLabels \cup {UntidyLabel} \cup ItemNameTexts \cup ChatTexts
    \cup SearchTerms \cup MenuRequests
    \cup {ItemsFries1, ItemsFries0, ItemsFriesNull, ItemsFries1BurgerNull,
          ItemsBurger1Fries1, ItemsFenced, ItemsUnfenced, ItemsNoQuantity, ItemsBroken,
          NotJson, UpdateFries2, UpdateUnnamed0, UpdateFriesNull, UpdateNone,
          ItemsMoonBurger1, ItemsFries1Fries2, UpdateUnnamed2, ItemsFries1MoonBurger1}
    \cup {ApiKeyIssue, ConnectionTrouble, FormatTrouble, TryAgain}

LowerOfKnown == {<<s, LowerFrom(s, 1)>> : s \in KnownTexts}

\* str.lower()
Lower(s) ==
    IF s \in KnownTexts
    THEN (CHOOSE p \in LowerOfKnown : p[1] = s)[2]
    ELSE LowerFrom(s, 1)

StripOfKnown == {<<s, LStripFrom(RStripTo(s, Len(s)), 1)>> : s \in KnownTexts}

\* str.strip()
Strip(s) ==
    IF s \in KnownTexts
    THEN (CHOOSE p \in StripOfKnown : p[1] = s)[2]
    ELSE LStripFrom(RStripTo(s, Len(s)), 1)

\* response_text.replace(fence + "json", "").replace(fence, "").strip() on
\* the stripped content; ~~~ stands for the fence of three backquotes
CleanJsonOf(content) == Strip(Replace(Replace(Strip(content), "~~~json", ""), "~~~", ""))

CleanOfKnown == {<<s, CleanJsonOf(s)>> : s \in KnownTexts}

CleanJson(content) ==
    IF content \in KnownTexts
    THEN (CHOOSE p \in CleanOfKnown : p[1] = content)[2]
    ELSE CleanJsonOf(content)

\* "menu" in s.lower()
MenuInKnown == {s \in KnownTexts : Contains("menu", Lower(s))}

MentionsMenu(user_message) ==
    IF user_message \in KnownTexts THEN user_message \in MenuInKnown
    ELSE Contains("menu", Lower(user_message))

\* f"{n:02d}" for 0 <= n < 100
TwoDigits(n) == IF n < 10 THEN "0" \o ToString(n) ELSE ToString(n)

\* f"{x:.2f}" of an amount held in cents
Money(c) ==
    IF c < 0
    THEN "-" \o ToString((0 - c) \div 100) \o "." \o TwoDigits((0 - c) % 100)
    ELSE ToString(c \div 100) \o "." \o TwoDigits(c % 100)

-----------------------------------------------------------------------------
(* The menu *)

MenuItem(n, p, cal, cat) == [name |-> n, price |-> p, calories |-> cal, category |-> cat]

FALLBACK_MENU == <<
    MenuItem("ShackBurger", 699, 500, "Burgers"),
    MenuItem("Cheeseburger", 649, 440, "Burgers"),
    MenuItem("Hamburger", 649, 370, "Burgers"),
    MenuItem("Avocado Bacon Burger", 949, 610, "Burgers"),
    MenuItem("SmokeShack", 849, 570, "Burgers"),
    MenuItem("Bacon Cheeseburger", 1149, 760, "Burgers"),
    MenuItem("Fries", 399, 470, "Fries"),
    MenuItem("Vanilla Shake", 599, 680, "Milkshakes"),
    MenuItem("Chocolate Shake", 599, 750, "Milkshakes"),
    MenuItem("Strawberry Shake", 599, 690, "Milkshakes"),
    MenuItem("Topo Chico", 349, 0, "Drinks") >>

\* find_menu_item's None, and any other falsy menu_item
NoMenuItem == [name |-> "", price |-> 0, calories |-> 0, category |-> ""]

\* get_all_menu_items(): the built-in menu (no menu store is configured)
GetAllMenuItems == FALLBACK_MENU

-----------------------------------------------------------------------------
(* More text: str.split, str.isdigit, int *)

DigitChars == "0123456789"

\* the characters  \d  matches
IsDigit(c) == \E d \in 1..10 : CharAt(DigitChars, d) = c

\* the characters  [a-zA-Z]  matches
IsAlpha(c) == c \in UpperChars \/ c \in LowerChars

\* set(s.split()) from position i on, cur the word being read
RECURSIVE WordsFrom(_, _, _)
WordsFrom(s, i, cur) ==
    IF i > Len(s) THEN (IF cur = "" THEN {} ELSE {cur})
    ELSE IF IsSpace(CharAt(s, i))
         THEN (IF cur = "" THEN {} ELSE {cur}) \cup WordsFrom(s, i + 1, "")
         ELSE WordsFrom(s, i + 1, cur \o CharAt(s, i))

\* set(s.split())
Words(s) == WordsFrom(s, 1, "")

\* str.isdigit()
IsDigitStr(s) == s # "" /\ \A i \in 1..Len(s) : IsDigit(CharAt(s, i))

RECURSIVE ParseIntTo(_, _)
ParseIntTo(s, j) ==
    IF j < 1 THEN 0
    ELSE 10 * ParseIntTo(s, j - 1)
            + (CHOOSE d \in 0..9 : CharAt(DigitChars, d + 1) = CharAt(s, j))

\* int(s) for a string of digits
ParseInt(s) == ParseIntTo(s, Len(s))

-----------------------------------------------------------------------------
(* Menu lookup: menu.py *)

\* a match score as the fraction n / d
Score(n, d) == [n |-> n, d |-> d]

\* a > b on scores
ScoreGreater(a, b) == a.n * b.d > b.n * a.d

Max(a, b) == IF a >= b THEN a ELSE b

\* threshold, the default of find_menu_item's parameter
Threshold == 20

\* the score of find_menu_item's word tests, common_words the words shared
CommonWordsScore(item_words, name_words, common_words) ==
    IF common_words = name_words THEN Score(60, 1)
    ELSE IF common_words = item_words THEN Score(50, 1)
    ELSE IF common_words # {}
         THEN Score(40 * Cardinality(common_words),
                    Max(Cardinality(item_words), Cardinality(name_words)))
    ELSE Score(0, 1)

\* the score of find_menu_item's word tests
WordsScore(item_words, name_words) ==
    CommonWordsScore(item_words, name_words, item_words \cap name_words)

\* the score find_menu_item gives the lower-cased name of a menu item
LowerScore(item_name, item_lower) ==
    IF Contains(item_name, item_lower) THEN Score(80, 1)
    ELSE IF Contains(item_lower, item_name) THEN Score(70, 1)
    ELSE WordsScore(Words(item_lower), Words(item_name))

\* the score find_menu_item gives a menu item for the lower-cased, stripped name
MatchScore(item_name, item) == LowerScore(item_name, Lower(item.name))

\* a loop that stops at the first item scoring above the threshold
RECURSIVE FirstAboveFrom(_, _, _, _, _)
FirstAboveFrom(all_items, item_name, i, best_match, best_score) ==
    IF i > Len(all_items) THEN best_match
    ELSE IF ScoreGreater(MatchScore(item_name, all_items[i]), best_score)
         THEN all_items[i]
         ELSE FirstAboveFrom(all_items, item_name, i + 1, best_match, best_score)

\* the scoring loop of find_menu_item from item i on
RECURSIVE BestMatchFrom(_, _, _, _, _)
BestMatchFrom(all_items, item_name, i, best_match, best_score) ==
    IF i > Len(all_items) THEN best_match
    ELSE LET score == MatchScore(item_name, all_items[i]) IN
         IF ScoreGreater(score, best_score)
         THEN BestMatchFrom(all_items, item_name, i + 1, all_items[i], score)
         ELSE BestMatchFrom(all_items, item_name, i + 1, best_match, best_score)

\* the exact-match loop of find_menu_item from item i on, 0 if none
RECURSIVE ExactMatchFrom(_, _, _)
ExactMatchFrom(all_items, item_name, i) ==
    IF i > Len(all_items) THEN 0
    ELSE IF Lower(all_items[i].name) = item_name THEN i
    ELSE ExactMatchFrom(all_items, item_name, i + 1)

\* find_menu_item(item_name) when get_all_menu_items() returns all_items:
\* the menu item, or NoMenuItem for None
FindMenuItemIn(all_items, item_name) ==
    IF item_name = "" THEN NoMenuItem
    ELSE LET name == Strip(Lower(item_name))
             exact == ExactMatchFrom(all_items, name, 1)
         IN  IF exact # 0 THEN all_items[exact]
             ELSE BestMatchFrom(all_items, name, 1, NoMenuItem, Score(Threshold, 1))

\* find_menu_item(item_name) over the built-in menu
FindMenuItem(item_name) == FindMenuItemIn(GetAllMenuItems, item_name)

-----------------------------------------------------------------------------
(* Regular expressions as re matches them: leftmost, backtracking in the   *)
(* order of the alternatives, greedy repetition                            *)

Lit(str) == [k |-> "lit", s |-> str]
Cls(name) == [k |-> "cls", c |-> name]
Alt(nodes) == [k |-> "alt", a |-> nodes]
Cat(nodes) == [k |-> "cat", a |-> nodes]
Opt(node) == [k |-> "opt", r |-> node]
\* c* and c+ for a character class c
Star(name) == [k |-> "rep", c |-> name, min |-> 0]
Plus(name) == [k |-> "rep", c |-> name, min |-> 1]
Grp(n, node) == [k |-> "grp", n |-> n, r |-> node]
GrpEnd(n, from) == [k |-> "end", n |-> n, from |-> from]

\* \d, \s and [a-zA-Z\s]
InClass(name, c) ==
    CASE name = "d" -> IsDigit(c)
      [] name = "s" -> IsSpace(c)
      [] name = "as" -> IsAlpha(c) \/ IsSpace(c)

\* the length of the longest run of characters of the class from position i
RunLength(name, s, i) ==
    CHOOSE n \in 0..(Len(s) + 1 - i) :
        /\ \A t \in i..(i + n - 1) : InClass(name, CharAt(s, t))
        /\ i + n = Len(s) + 1 \/ ~InClass(name, CharAt(s, i + n))

SetMax(S) == CHOOSE x \in S : \A y \in S : y <= x
SetMin(S) == CHOOSE x \in S : \A y \in S : x <= y

NoMatch == [ok |-> FALSE, end |-> 0, caps |-> <<>>]

\* the match of the nodes rs, one after the other, at position i of s (the
\* first the backtracking search finds), with the groups captured so far
RECURSIVE MatchAt(_, _, _, _)
RECURSIVE MatchAlt(_, _, _, _, _, _)
MatchAt(rs, s, i, caps) ==
    IF rs = <<>> THEN [ok |-> TRUE, end |-> i, caps |-> caps]
    ELSE
    LET r == Head(rs)
        rest == Tail(rs)
    IN  CASE r.k = "lit" ->
                IF i + Len(r.s) - 1 <= Len(s) /\ SubSeq(s, i, i + Len(r.s) - 1) = r.s
                THEN MatchAt(rest, s, i + Len(r.s), caps)
                ELSE NoMatch
          [] r.k = "cls" ->
                IF i <= Len(s) /\ InClass(r.c, CharAt(s, i))
                THEN MatchAt(rest, s, i + 1, caps)
                ELSE NoMatch
          [] r.k = "cat" -> MatchAt(r.a \o rest, s, i, caps)
          [] r.k = "alt" -> MatchAlt(r.a, 1, rest, s, i, caps)
          [] r.k = "opt" ->
                LET taken == MatchAt(<<r.r>> \o rest, s, i, caps) IN
                IF taken.ok THEN taken ELSE MatchAt(rest, s, i, caps)
          [] r.k = "rep" ->
                \* greedy: the longest run after which the rest matches
                LET tries == {<<n, MatchAt(rest, s, i + n, caps)>> :
                                n \in r.min..RunLength(r.c, s, i)}
                    good == {t[1] : t \in {u \in tries : u[2].ok}}
                IN  IF good = {} THEN NoMatch
                    ELSE (CHOOSE t \in tries : t[1] = SetMax(good))[2]
          [] r.k = "grp" -> MatchAt(<<r.r, GrpEnd(r.n, i)>> \o rest, s, i, caps)
          [] r.k = "end" ->
                MatchAt(rest, s, i, [caps EXCEPT ![r.n] = SubSeq(s, r.from, i - 1)])

MatchAlt(alts, j, rest, s, i, caps) ==
    IF j > Len(alts) THEN NoMatch
    ELSE LET m == MatchAt(<<alts[j]>> \o rest, s, i, caps) IN
         IF m.ok THEN m ELSE MatchAlt(alts, j + 1, rest, s, i, caps)

\* the match at the first of the positions tried that has one
FirstMatch(tries, good) ==
    IF good = {} THEN NoMatch
    ELSE (CHOOSE t \in tries : t[1] = SetMin(good))[2]

\* the positions of the tries that match
Matching(tries) == {t[1] : t \in {u \in tries : u[2].ok}}

FirstOf(tries) == FirstMatch(tries, Matching(tries))

\* re.search(pattern, s) from position pos on: the match at the first
\* position that has one; groups is the number of groups
Search(pattern, groups, s, pos) ==
    FirstOf({<<p, MatchAt(<<pattern>>, s, p, [g \in 1..groups |-> ""])>> :
                p \in pos..(Len(s) + 1)})

\* re.findall(pattern, s) from position pos on, m the first match: the
\* groups of each match
RECURSIVE FindAll(_, _, _, _)
FindAllAfter(pattern, groups, s, pos, m) ==
    IF ~m.ok THEN <<>>
    ELSE <<m.caps>> \o FindAll(pattern, groups, s, IF m.end > pos THEN m.end ELSE pos + 1)

\* re.findall(pattern, s) from position pos on
FindAll(pattern, groups, s, pos) ==
    FindAllAfter(pattern, groups, s, pos, Search(pattern, groups, s, pos))

-----------------------------------------------------------------------------
(* Order extraction from the text: llm.py, extract_order_items_from_text *)

Lits(strs) == [i \in 1..Len(strs) |-> Lit(strs[i])]

\* (?:an?|some|\d+)?
OptArticle == Opt(Alt(<<Cat(<<Lit("a"), Opt(Lit("n"))>>), Lit("some"), Plus("d")>>))

\* (?:i|get|add|order)?
OptSubject == Opt(Alt(Lits(<<"i", "get", "add", "order">>)))

ItemSuffixes ==
    <<"burger", "shake", "fries", "chico", "dog", "tea", "soda", "water", "coffee",
      "lemonade">>

\* direct_patterns[0]
DirectPattern1 ==
    Cat(<<OptSubject, Star("s"),
          Opt(Alt(Lits(<<"would", "want", "like", "need", "have">>))), Star("s"),
          Opt(Lit("to")), Opt(Alt(Lits(<<"get", "add", "order", "have">>))),
          Star("s"), OptArticle, Star("s"),
          Grp(1, Cat(<<Plus("as"), Alt(Lits(ItemSuffixes))>>))>>)

\* direct_patterns[1]
DirectPattern2 ==
    Cat(<<OptSubject, Star("s"),
          Opt(Alt(Lits(<<"would", "want", "like", "need">>))), Star("s"),
          Grp(1, Plus("d")), Star("s"), Grp(2, Plus("as"))>>)

\* direct_patterns[2]
DirectPattern3 ==
    Cat(<<Alt(Lits(<<"add", "give me", "get me", "get", "order">>)), Star("s"),
          OptArticle, Star("s"), Grp(1, Plus("as"))>>)

\* the patterns with the number of groups of each
direct_patterns ==
    <<[re |-> DirectPattern1, groups |-> 1], [re |-> DirectPattern2, groups |-> 2],
      [re |-> DirectPattern3, groups |-> 1]>>

\* (\d+)\s+([a-zA-Z\s]+)
QuantityItemPattern ==
    Cat(<<Grp(1, Plus("d")), Plus("s"), Grp(2, Plus("as"))>>)

\* the words the extraction skips
SkippedWords == {"some", "a", "an", "the", "to", "for", "me", "please", "thanks"}

ExtractedItem(n, q) == [name |-> n, quantity |-> q]

\* the index of the first extracted item of this name, 0 if none
RECURSIVE ExistingIndex(_, _, _)
ExistingIndex(items, name, i) ==
    IF i > Len(items) THEN 0
    ELSE IF items[i].name = name THEN i
    ELSE ExistingIndex(items, name, i + 1)

\* the items extracted so far and the names processed so far
Extracted(items, processed) == [items |-> items, processed |-> processed]

\* the extracted items with this menu item, existing the index of its entry
WithExtracted(extracted_items, name, quantity, existing) ==
    IF existing # 0
    THEN [extracted_items EXCEPT ![existing].quantity = @ + quantity]
    ELSE Append(extracted_items, ExtractedItem(name, quantity))

\* one match resolved to menu_item
ExtractResolved(quantity, menu_item, extracted_items, processed_items) ==
    IF menu_item # NoMenuItem /\ menu_item.name \notin processed_items
    THEN Extracted(WithExtracted(extracted_items, menu_item.name, quantity,
                                 ExistingIndex(extracted_items, menu_item.name, 1)),
                   processed_items \cup {menu_item.name})
    ELSE Extracted(extracted_items, processed_items)

\* one match read as a quantity and an item name
ExtractNamed(quantity, item_name, extracted_items, processed_items) ==
    IF item_name \in SkippedWords THEN Extracted(extracted_items, processed_items)
    ELSE ExtractResolved(quantity, FindMenuItem(item_name), extracted_items,
                         processed_items)

\* one match of a direct pattern: the items extracted so far, with this one
ExtractMatch(match, extracted_items, processed_items) ==
    IF Len(match) = 2 /\ IsDigitStr(match[1])
    THEN ExtractNamed(ParseInt(match[1]), Strip(match[2]), extracted_items,
                      processed_items)
    ELSE ExtractNamed(1, Strip(match[1]), extracted_items, processed_items)

\* the loop over the matches of one pattern, from match j on
RECURSIVE ExtractMatches(_, _, _)
ExtractMatches(matches, j, acc) ==
    IF j > Len(matches) THEN acc
    ELSE ExtractMatches(matches, j + 1, ExtractMatch(matches[j], acc.items, acc.processed))

\* the loop over direct_patterns, from pattern k on
RECURSIVE ExtractPatterns(_, _, _)
ExtractPatterns(text, k, acc) ==
    IF k > Len(direct_patterns) THEN acc
    ELSE ExtractPatterns(text, k + 1,
            ExtractMatches(FindAll(direct_patterns[k].re, direct_patterns[k].groups,
                                   text, 1), 1, acc))

\* the first stage with its match resolved to menu_item, then the patterns
ExtractResolvedFirst(text, m, menu_item) ==
    IF menu_item # NoMenuItem
    THEN <<ExtractedItem(menu_item.name, ParseInt(m.caps[1]))>>
    ELSE ExtractPatterns(text, 1, Extracted(<<>>, {})).items

\* the first stage, m the match of quantity_item_pattern, then the patterns
ExtractMatched(text, m) ==
    IF m.ok THEN ExtractResolvedFirst(text, m, FindMenuItem(Strip(m.caps[2])))
    ELSE ExtractPatterns(text, 1, Extracted(<<>>, {})).items

\* extract_order_items_from_text on the lower-cased message
ExtractFromLower(text) == ExtractMatched(text, Search(QuantityItemPattern, 2, text, 1))

\* extract_order_items_from_text(user_message): the list of {name, quantity}
ExtractOrderItemsFromText(user_message) == ExtractFromLower(Lower(user_message))

-----------------------------------------------------------------------------
(* The cart: order.py *)

\* a cart line as add_to_order builds it
CartLine(menu_item, quantity) ==
    [name |-> menu_item.name, price |-> menu_item.price,
     category |-> menu_item.category, quantity |-> quantity]

\* sum of price * quantity over the lines
RECURSIVE LinesTotal(_)
LinesTotal(lines) ==
    IF lines = <<>> THEN 0
    ELSE Head(lines).price * Head(lines).quantity + LinesTotal(Tail(lines))

\* list.pop(i)
Pop(lines, i) == SubSeq(lines, 1, i - 1) \o SubSeq(lines, i + 1, Len(lines))

\* lower-cases the menu item's name only
RECURSIVE SameItemIndexOneSidedLower(_, _, _)
SameItemIndexOneSidedLower(lines, menu_item, i) ==
    IF i > Len(lines) THEN 0
    ELSE IF lines[i].name = Lower(menu_item.name) THEN i
    ELSE SameItemIndexOneSidedLower(lines, menu_item, i + 1)

\* add_to_order's loop from line i on: the index of the first line of the
\* same item, 0 if none
RECURSIVE SameItemIndex(_, _, _)
SameItemIndex(lines, menu_item, i) ==
    IF i > Len(lines) THEN 0
    ELSE IF Lower(lines[i].name) = Lower(menu_item.name) THEN i
    ELSE SameItemIndex(lines, menu_item, i + 1)

\* the last line whose name contains item_name, 0 if none
FindLastLine(lines, item_name, i) ==
    IF \E k \in i..Len(lines) : Contains(Lower(item_name), Lower(lines[k].name))
    THEN CHOOSE k \in i..Len(lines) :
            /\ Contains(Lower(item_name), Lower(lines[k].name))
            /\ \A j \in (k + 1)..Len(lines) :
                    ~Contains(Lower(item_name), Lower(lines[j].name))
    ELSE 0

\* the loop of update_order_quantity and remove_from_order from line i on:
\* the index of the first line whose name contains the search term, 0 if none
RECURSIVE FindLine(_, _, _)
FindLine(lines, item_name, i) ==
    IF i > Len(lines) THEN 0
    ELSE IF Contains(Lower(item_name), Lower(lines[i].name)) THEN i
    ELSE FindLine(lines, item_name, i + 1)

\* the session's cart state as one value
Cart(o, t, u) == [order |-> o, total_price |-> t, update_sidebar |-> u]

\* Python's None where a quantity is expected (JSON null): a value apart from
\* every quantity of the model; arithmetic and ordering on it raise TypeError
None == -1000

\* The operations return the cart after the call and whether the call raised;
\* a call that raises keeps the writes it made before the raising statement.

\* sets the quantity of an existing line instead of adding to it
AddToOrderReplaces(c, menu_item, quantity) ==
    LET i == SameItemIndex(c.order, menu_item, 1) IN
    IF menu_item = NoMenuItem THEN [cart |-> c, raised |-> FALSE]
    ELSE IF i # 0
    THEN IF c.order[i].quantity = None \/ quantity = None
         THEN [cart |-> c, raised |-> TRUE]
         ELSE [cart |-> Cart([c.order EXCEPT ![i].quantity = quantity],
                             c.total_price + menu_item.price * quantity, TRUE),
               raised |-> FALSE]
    ELSE LET appended == Append(c.order, CartLine(menu_item, quantity)) IN
         IF quantity = None
         THEN [cart |-> Cart(appended, c.total_price, c.update_sidebar),
               raised |-> TRUE]
         ELSE [cart |-> Cart(appended, c.total_price + menu_item.price * quantity, TRUE),
               raised |-> FALSE]

\* leaves the total alone when the line exists
AddToOrderStaleTotal(c, menu_item, quantity) ==
    LET i == SameItemIndex(c.order, menu_item, 1) IN
    IF menu_item = NoMenuItem THEN [cart |-> c, raised |-> FALSE]
    ELSE IF i # 0
    THEN IF c.order[i].quantity = None \/ quantity = None
         THEN [cart |-> c, raised |-> TRUE]
         ELSE [cart |-> Cart([c.order EXCEPT ![i].quantity = @ + quantity],
                             c.total_price, TRUE),
               raised |-> FALSE]
    ELSE LET appended == Append(c.order, CartLine(menu_item, quantity)) IN
         IF quantity = None
         THEN [cart |-> Cart(appended, c.total_price, c.update_sidebar),
               raised |-> TRUE]
         ELSE [cart |-> Cart(appended, c.total_price + menu_item.price * quantity, TRUE),
               raised |-> FALSE]

\* add_to_order(menu_item, quantity)
AddToOrder(c, menu_item, quantity) ==
    LET i == SameItemIndex(c.order, menu_item, 1) IN
    IF menu_item = NoMenuItem THEN [cart |-> c, raised |-> FALSE]
    ELSE IF i # 0
    THEN IF c.order[i].quantity = None \/ quantity = None
         THEN [cart |-> c, raised |-> TRUE]
         ELSE [cart |-> Cart([c.order EXCEPT ![i].quantity = @ + quantity],
                             c.total_price + menu_item.price * quantity, TRUE),
               raised |-> FALSE]
    ELSE LET appended == Append(c.order, CartLine(menu_item, quantity)) IN
         IF quantity = None
         THEN [cart |-> Cart(appended, c.total_price, c.update_sidebar),
               raised |-> TRUE]
         ELSE [cart |-> Cart(appended, c.total_price + menu_item.price * quantity, TRUE),
               raised |-> FALSE]

NotFoundInOrder(item_name) ==
    "I couldn't find '" \o item_name \o "' in your current order."

\* removes the line only below zero
UpdateOrderQuantityKeepsZero(c, item_name, new_quantity) ==
    LET i == FindLine(c.order, item_name, 1) IN
    IF i = 0
    THEN [cart |-> c, response |-> NotFoundInOrder(item_name), raised |-> FALSE]
    ELSE IF c.order[i].quantity = None \/ new_quantity = None
    THEN [cart |-> c, response |-> "", raised |-> TRUE]
    ELSE
        LET item         == c.order[i]
            old_quantity == item.quantity
            price_change == item.price * (new_quantity - old_quantity)
        IN  IF new_quantity < 0
            THEN LET t == c.total_price - item.price * old_quantity IN
                 [cart |-> Cart(Pop(c.order, i), t, TRUE),
                  response |-> "**I've removed " \o item.name
                      \o " from your order.**  \n  \n**Your total is now $"
                      \o Money(t) \o "**",
                  raised |-> FALSE]
            ELSE LET t == c.total_price + price_change IN
                 [cart |-> Cart([c.order EXCEPT ![i].quantity = new_quantity], t, TRUE),
                  response |-> "**I've updated your order:**  \n- Now "
                      \o ToString(new_quantity) \o "x " \o item.name \o " - $"
                      \o Money(item.price * new_quantity)
                      \o "  \n  \n**Your total is now $" \o Money(t) \o "**",
                  raised |-> FALSE]

\* adds the whole new amount to the total
UpdateOrderQuantityAddsWhole(c, item_name, new_quantity) ==
    LET i == FindLine(c.order, item_name, 1) IN
    IF i = 0
    THEN [cart |-> c, response |-> NotFoundInOrder(item_name), raised |-> FALSE]
    ELSE IF c.order[i].quantity = None \/ new_quantity = None
    THEN [cart |-> c, response |-> "", raised |-> TRUE]
    ELSE
        LET item         == c.order[i]
            old_quantity == item.quantity
            price_change == item.price * new_quantity
        IN  IF new_quantity <= 0
            THEN LET t == c.total_price - item.price * old_quantity IN
                 [cart |-> Cart(Pop(c.order, i), t, TRUE),
                  response |-> "**I've removed " \o item.name
                      \o " from your order.**  \n  \n**Your total is now $"
                      \o Money(t) \o "**",
                  raised |-> FALSE]
            ELSE LET t == c.total_price + price_change IN
                 [cart |-> Cart([c.order EXCEPT ![i].quantity = new_quantity], t, TRUE),
                  response |-> "**I've updated your order:**  \n- Now "
                      \o ToString(new_quantity) \o "x " \o item.name \o " - $"
                      \o Money(item.price * new_quantity)
                      \o "  \n  \n**Your total is now $" \o Money(t) \o "**",
                  raised |-> FALSE]

\* raises update_sidebar before looking for the line
UpdateOrderQuantityFlagsAlways(c, item_name, new_quantity) ==
    LET i == FindLine(c.order, item_name, 1) IN
    IF i = 0
    THEN [cart |-> Cart(c.order, c.total_price, TRUE),
          response |-> NotFoundInOrder(item_name), raised |-> FALSE]
    ELSE IF c.order[i].quantity = None \/ new_quantity = None
    THEN [cart |-> c, response |-> "", raised |-> TRUE]
    ELSE
        LET item         == c.order[i]
            old_quantity == item.quantity
            price_change == item.price * (new_quantity - old_quantity)
        IN  IF new_quantity <= 0
            THEN LET t == c.total_price - item.price * old_quantity IN
                 [cart |-> Cart(Pop(c.order, i), t, TRUE),
                  response |-> "**I've removed " \o item.name
                      \o " from your order.**  \n  \n**Your total is now $"
                      \o Money(t) \o "**",
                  raised |-> FALSE]
            ELSE LET t == c.total_price + price_change IN
                 [cart |-> Cart([c.order EXCEPT ![i].quantity = new_quantity], t, TRUE),
                  response |-> "**I've updated your order:**  \n- Now "
                      \o ToString(new_quantity) \o "x " \o item.name \o " - $"
                      \o Money(item.price * new_quantity)
                      \o "  \n  \n**Your total is now $" \o Money(t) \o "**",
                  raised |-> FALSE]

\* update_order_quantity(item_name, new_quantity)
UpdateOrderQuantity(c, item_name, new_quantity) ==
    LET i == FindLine(c.order, item_name, 1) IN
    IF i = 0
    THEN [cart |-> c, response |-> NotFoundInOrder(item_name), raised |-> FALSE]
    ELSE IF c.order[i].quantity = None \/ new_quantity = None
    THEN [cart |-> c, response |-> "", raised |-> TRUE]
    ELSE
        LET item         == c.order[i]
            old_quantity == item.quantity
            price_change == item.price * (new_quantity - old_quantity)
        IN  IF new_quantity <= 0
            THEN LET t == c.total_price - item.price * old_quantity IN
                 [cart |-> Cart(Pop(c.order, i), t, TRUE),
                  response |-> "**I've removed " \o item.name
                      \o " from your order.**  \n  \n**Your total is now $"
                      \o Money(t) \o "**",
                  raised |-> FALSE]
            ELSE LET t == c.total_price + price_change IN
                 [cart |-> Cart([c.order EXCEPT ![i].quantity = new_quantity], t, TRUE),
                  response |-> "**I've updated your order:**  \n- Now "
                      \o ToString(new_quantity) \o "x " \o item.name \o " - $"
                      \o Money(item.price * new_quantity)
                      \o "  \n  \n**Your total is now $" \o Money(t) \o "**",
                  raised |-> FALSE]

\* takes one unit price off the total
RemoveFromOrderOneUnit(c, item_name) ==
    LET i == FindLine(c.order, item_name, 1) IN
    IF i = 0
    THEN [cart |-> c, response |-> NotFoundInOrder(item_name), raised |-> FALSE]
    ELSE IF c.order[i].quantity = None
    THEN [cart |-> Cart(Pop(c.order, i), c.total_price, c.update_sidebar),
          response |-> "", raised |-> TRUE]
    ELSE
        LET removed_item  == c.order[i]
            quantity      == removed_item.quantity
            t             == c.total_price - removed_item.price
            quantity_text == IF quantity > 1 THEN ToString(quantity) \o "x " ELSE ""
        IN  [cart |-> Cart(Pop(c.order, i), t, TRUE),
             response |-> "**Removed from your order:**  \n- " \o quantity_text
                 \o removed_item.name \o "  \n  \n**Your total is now $"
                 \o Money(t) \o "**",
             raised |-> FALSE]

\* remove_from_order(item_name)
RemoveFromOrder(c, item_name) ==
    LET i == FindLine(c.order, item_name, 1) IN
    IF i = 0
    THEN [cart |-> c, response |-> NotFoundInOrder(item_name), raised |-> FALSE]
    ELSE IF c.order[i].quantity = None
    THEN [cart |-> Cart(Pop(c.order, i), c.total_price, c.update_sidebar),
          response |-> "", raised |-> TRUE]
    ELSE
        LET removed_item  == c.order[i]
            quantity      == removed_item.quantity
            t             == c.total_price - removed_item.price * quantity
            quantity_text == IF quantity > 1 THEN ToString(quantity) \o "x " ELSE ""
        IN  [cart |-> Cart(Pop(c.order, i), t, TRUE),
             response |-> "**Removed from your order:**  \n- " \o quantity_text
                 \o removed_item.name \o "  \n  \n**Your total is now $"
                 \o Money(t) \o "**",
             raised |-> FALSE]

\* empties the lines and keeps the total
ClearOrderKeepsTotal(c) == Cart(<<>>, c.total_price, TRUE)

\* clear_order()
ClearOrder(c) == Cart(<<>>, 0, TRUE)

EmptyOrderMessage == "Your order is currently empty."

-----------------------------------------------------------------------------
(* Python values of more than one type, tagged by their type *)

Str(s) == [kind |-> "str", s |-> s]
List(xs) == [kind |-> "list", xs |-> xs]
Tuple(xs) == [kind |-> "tuple", xs |-> xs]
Dict(d) == [kind |-> "dict", d |-> d]
NoneValue == [kind |-> "none"]

\* bool(v)
Truthy(v) ==
    CASE v.kind = "str" -> v.s # ""
      [] v.kind = "list" -> v.xs # <<>>
      [] v.kind = "tuple" -> v.xs # <<>>
      [] v.kind = "dict" -> TRUE
      [] v.kind = "none" -> FALSE

-----------------------------------------------------------------------------
(* The completion service: what chain.invoke(...) does *)

\* a completion with this content
Reply(content) == [raises |-> FALSE, type |-> "", details |-> "", content |-> content]

\* an exception of this type whose str() is details
Raise(type, details) == [raises |-> TRUE, type |-> type, details |-> details, content |-> ""]

\* the place of a call that is not made
NoCall == [raises |-> FALSE, type |-> "", details |-> "", content |-> "<no call>"]

\* the errors of the service: rejected key, no connection, no answer in time
ServiceErrors ==
    {Raise("AuthenticationError", "Error code: 401 - Unauthorized"),
     Raise("APIConnectionError", "Connection error."),
     Raise("APITimeoutError", "Request timed out.")}

-----------------------------------------------------------------------------
(* llm.py: the error handler and the key *)

\* the exceptions process_message's own statements raise
NoneArithmetic == Raise("TypeError", "unsupported operand type(s) for *: 'float' and 'NoneType'")
NoneComparison == Raise("TypeError", "'>' not supported between instances of 'NoneType' and 'int'")
UnpackError == Raise("ValueError", "too many values to unpack (expected 3)")
StrHasNoGet == Raise("AttributeError", "'str' object has no attribute 'get'")
StrIndexError == Raise("TypeError", "string indices must be integers")

\* the test of llm_error_handler's wrapper the exception e passes: the
\* message it selects
HandlerBranchOf(e) ==
    IF Contains("Unauthorized", e.details) THEN "key"
    ELSE IF Contains("Connection", e.details) \/ Contains("Timeout", e.details)
    THEN "connection"
    ELSE IF Contains("JSON", e.type) \/ Contains("parsing", LowerFrom(e.details, 1))
    THEN "format"
    ELSE "other"

KnownErrors ==
    ServiceErrors
    \cup {NoneArithmetic, NoneComparison, UnpackError, StrHasNoGet, StrIndexError}

BranchOfKnown == {<<e, HandlerBranchOf(e)>> : e \in KnownErrors}

\* the same, computed once for the exceptions of the model
HandlerBranch(e) ==
    IF e \in KnownErrors
    THEN (CHOOSE p \in BranchOfKnown : p[1] = e)[2]
    ELSE HandlerBranchOf(e)

\* the except branch of llm_error_handler's wrapper: the value returned for
\* the exception e; error_message "" stands for None
LLMErrorHandler(default_return, error_message, e) ==
    LET branch == HandlerBranch(e) IN
    IF branch = "key" THEN Str(ApiKeyIssue)
    ELSE IF branch = "connection" THEN Str(ConnectionTrouble)
    ELSE IF branch = "format" THEN Str(FormatTrouble)
    ELSE IF error_message # "" THEN Str(error_message)
    ELSE IF default_return.kind = "str" THEN Str(TroublePrefix \o default_return.s)
    ELSE IF default_return.kind # "none" THEN default_return
    ELSE Str(TryAgain)

\* looks at the environment's key before the session's
GetLLMEnvironmentFirst(session_key, environment_key) ==
    IF environment_key # "" THEN environment_key
    ELSE IF session_key # "" THEN session_key
    ELSE ""

\* get_llm(): the key of the client, "" for None
GetLLM(session_key, environment_key) ==
    IF session_key # "" THEN session_key
    ELSE IF environment_key # "" THEN environment_key
    ELSE ""

\* classify_intent(user_message), the classifier's call answered by o
ClassifyIntent(llm, user_message, o) ==
    IF llm = "" THEN "general_question"
    ELSE IF o.raises THEN LLMErrorHandler(Str("general_question"), "", o).s
    ELSE Lower(Strip(o.content))

-----------------------------------------------------------------------------
(* JSON documents: json.loads on the texts of the model *)

\* json.loads(text): the document, or ok = FALSE where it raises
\* JSONDecodeError; null where a quantity is expected is None
JsonLoads(text) ==
    CASE text = ItemsFries1 ->
            [ok |-> TRUE, value |-> [items |-> <<[name |-> "Fries", quantity |-> 1]>>]]
      [] text = ItemsFries0 ->
            [ok |-> TRUE, value |-> [items |-> <<[name |-> "Fries", quantity |-> 0]>>]]
      [] text = ItemsFriesNull ->
            [ok |-> TRUE, value |-> [items |-> <<[name |-> "Fries", quantity |-> None]>>]]
      [] text = ItemsFries1BurgerNull ->
            [ok |-> TRUE,
             value |-> [items |-> <<[name |-> "Fries", quantity |-> 1],
                                    [name |-> "ShackBurger", quantity |-> None]>>]]
      [] text = ItemsBurger1Fries1 ->
            [ok |-> TRUE,
             value |-> [items |-> <<[name |-> "ShackBurger", quantity |-> 1],
                                    [name |-> "fries", quantity |-> 1]>>]]
      [] text = ItemsMoonBurger1 ->
            [ok |-> TRUE, value |-> [items |-> <<[name |-> "Moon Burger", quantity |-> 1]>>]]
      [] text = ItemsFries1MoonBurger1 ->
            [ok |-> TRUE,
             value |-> [items |-> <<[name |-> "Fries", quantity |-> 1],
                                    [name |-> "Moon Burger", quantity |-> 1]>>]]
      [] text = ItemsFries1Fries2 ->
            [ok |-> TRUE,
             value |-> [items |-> <<[name |-> "Fries", quantity |-> 1],
                                    [name |-> "fries", quantity |-> 2]>>]]
      [] text = ItemsUnfenced ->
            [ok |-> TRUE, value |-> [items |-> <<[name |-> "fries", quantity |-> 2]>>]]
      [] text = ItemsNoQuantity ->
            [ok |-> TRUE, value |-> [items |-> <<[name |-> "Fries"]>>]]
      [] text = UpdateFries2 ->
            [ok |-> TRUE,
             value |-> [is_update |-> TRUE, item_name |-> Str("Fries"), quantity |-> 2]]
      [] text = UpdateUnnamed0 ->
            [ok |-> TRUE,
             value |-> [is_update |-> TRUE, item_name |-> NoneValue, quantity |-> 0]]
      [] text = UpdateUnnamed2 ->
            [ok |-> TRUE,
             value |-> [is_update |-> TRUE, item_name |-> NoneValue, quantity |-> 2]]
      [] text = UpdateFriesNull ->
            [ok |-> TRUE,
             value |-> [is_update |-> TRUE, item_name |-> Str("Fries"), quantity |-> None]]
      [] text = UpdateNone ->
            [ok |-> TRUE,
             value |-> [is_update |-> FALSE, item_name |-> NoneValue, quantity |-> None]]
      [] OTHER -> [ok |-> FALSE, value |-> <<>>]

-----------------------------------------------------------------------------
(* llm.py: the extractors *)

\* the names the completion service and the texts hand to find_menu_item
LookupTexts ==
    {"ShackBurger", "Fries", "fries", "fries ", "Moon Burger", "", "Vanilla Shake"}

KnownMenuItems == {<<t, FindMenuItem(t)>> : t \in LookupTexts}

\* find_menu_item(item_name), computed once for the names above
FindKnownMenuItem(item_name) ==
    IF item_name \in LookupTexts
    THEN (CHOOSE p \in KnownMenuItems : p[1] = item_name)[2]
    ELSE FindMenuItem(item_name)

\* the loop of extract_order_items_using_llm over items_data["items"] from
\* entry i on
RECURSIVE ResultItemsFrom(_, _, _, _)
ResultItemsFrom(items, i, result_items, processed_items) ==
    IF i > Len(items) THEN result_items
    ELSE
    LET item_data == items[i] IN
    IF "name" \in DOMAIN item_data /\ "quantity" \in DOMAIN item_data
    THEN LET menu_item == FindKnownMenuItem(item_data.name) IN
         IF menu_item # NoMenuItem /\ menu_item.name \notin processed_items
         THEN LET existing == ExistingIndex(result_items, menu_item.name, 1) IN
              ResultItemsFrom(items, i + 1,
                  IF existing # 0
                  THEN [result_items EXCEPT
                            ![existing].quantity = @ + item_data.quantity]
                  ELSE Append(result_items,
                              ExtractedItem(menu_item.name, item_data.quantity)),
                  processed_items \cup {menu_item.name})
         ELSE ResultItemsFrom(items, i + 1, result_items, processed_items)
    ELSE ResultItemsFrom(items, i + 1, result_items, processed_items)

\* extract_order_items_using_llm(user_message), its call answered by o
ExtractOrderItemsUsingLLM(llm, o) ==
    IF llm = "" THEN List(<<>>)
    ELSE IF o.raises THEN LLMErrorHandler(List(<<>>), "", o)
    ELSE
    LET response_text == CleanJson(o.content) IN
    IF StartsWith(response_text, "{") /\ EndsWith(response_text, "}")
    THEN LET items_data == JsonLoads(response_text) IN
         IF items_data.ok /\ "items" \in DOMAIN items_data.value
         THEN List(ResultItemsFrom(items_data.value.items, 1, <<>>, {}))
         ELSE List(<<>>)
    ELSE List(<<>>)

\* process_quantity_update(user_message), its call answered by o
ProcessQuantityUpdate(llm, o) ==
    LET not_an_update == Tuple(<<FALSE, NoneValue, None>>) IN
    IF llm = "" THEN not_an_update
    ELSE IF o.raises THEN LLMErrorHandler(not_an_update, "", o)
    ELSE
    LET result_json == CleanJson(o.content) IN
    IF StartsWith(result_json, "{") /\ EndsWith(result_json, "}")
    THEN LET result == JsonLoads(result_json) IN
         IF result.ok
         THEN Tuple(<<IF "is_update" \in DOMAIN result.value
                      THEN result.value.is_update ELSE FALSE,
                      IF "item_name" \in DOMAIN result.value
                      THEN result.value.item_name ELSE NoneValue,
                      IF "quantity" \in DOMAIN result.value
                      THEN result.value.quantity ELSE None>>)
         ELSE not_an_update
    ELSE not_an_update

\* extract_item_to_remove(user_message), its call answered by o
ExtractItemToRemove(llm, o) ==
    IF llm = "" THEN NoneValue
    ELSE IF o.raises THEN LLMErrorHandler(NoneValue, "", o)
    ELSE Str(Strip(o.content))

\* the direct-match loop of extract_price_inquiry_item from item i on: the
\* index of the first menu item whose name is in the message, 0 if none
RECURSIVE DirectMatchFrom(_, _, _)
DirectMatchFrom(menu_items, message, i) ==
    IF i > Len(menu_items) THEN 0
    ELSE IF Contains(Lower(menu_items[i].name), message) THEN i
    ELSE DirectMatchFrom(menu_items, message, i + 1)

\* extract_price_inquiry_item(user_message), its call answered by o
ExtractPriceInquiryItem(llm, user_message, o) ==
    IF llm = "" THEN NoneValue
    ELSE
    LET menu_items == GetAllMenuItems
        direct == DirectMatchFrom(menu_items, Lower(user_message), 1)
    IN  IF direct # 0 THEN Dict(menu_items[direct])
        ELSE IF o.raises THEN LLMErrorHandler(NoneValue, "", o)
        ELSE LET found == FindKnownMenuItem(Strip(o.content)) IN
             IF found = NoMenuItem THEN NoneValue ELSE Dict(found)

\* general_conversation(...), its call answered by o
GeneralConversation(llm, o) ==
    IF llm = "" THEN ProvideKeyNotice
    ELSE IF o.raises THEN LLMErrorHandler(Str(TryAgain), "", o).s
    ELSE o.content

-----------------------------------------------------------------------------
(* order.py and menu.py: the texts shown to the user; " - " stands for the  *)
(* dash and "* " for the bullet of the source                               *)

\* the loop of get_order_summary from line i on; raised where a quantity is
\* None (quantity > 1 raises TypeError)
RECURSIVE OrderSummaryFrom(_, _, _)
OrderSummaryFrom(lines, i, order_summary) ==
    IF i > Len(lines) THEN [text |-> order_summary, raised |-> FALSE]
    ELSE
    LET item == lines[i]
        quantity == item.quantity
    IN  IF quantity = None THEN [text |-> order_summary, raised |-> TRUE]
        ELSE OrderSummaryFrom(lines, i + 1,
                order_summary \o "- "
                \o (IF quantity > 1 THEN "(" \o ToString(quantity) \o "x) " ELSE "")
                \o item.name \o " - $" \o Money(item.price * quantity) \o "  \n")

\* get_order_summary()
GetOrderSummary(c) ==
    IF c.order = <<>> THEN [text |-> EmptyOrderMessage, raised |-> FALSE]
    ELSE LET r == OrderSummaryFrom(c.order, 1, "**Your current order:**  \n") IN
         [text |-> r.text \o "  \n**Total: $" \o Money(c.total_price) \o "**",
          raised |-> r.raised]

\* the keys of menu_by_category in insertion order, from item i on
RECURSIVE CategoriesFrom(_, _, _)
CategoriesFrom(menu_items, i, categories) ==
    IF i > Len(menu_items) THEN categories
    ELSE IF \E k \in 1..Len(categories) : categories[k] = menu_items[i].category
         THEN CategoriesFrom(menu_items, i + 1, categories)
         ELSE CategoriesFrom(menu_items, i + 1, Append(categories, menu_items[i].category))

RECURSIVE FormatItemsFrom(_, _, _)
FormatItemsFrom(menu_items, category, i) ==
    IF i > Len(menu_items) THEN ""
    ELSE (IF menu_items[i].category = category
          THEN "- **" \o menu_items[i].name \o "** - $" \o Money(menu_items[i].price)
               \o " (" \o ToString(menu_items[i].calories) \o " calories)\n"
          ELSE "")
         \o FormatItemsFrom(menu_items, category, i + 1)

RECURSIVE FormatCategoriesFrom(_, _, _)
FormatCategoriesFrom(menu_items, categories, k) ==
    IF k > Len(categories) THEN ""
    ELSE "## " \o categories[k] \o "\n\n"
         \o FormatItemsFrom(menu_items, categories[k], 1) \o "\n"
         \o FormatCategoriesFrom(menu_items, categories, k + 1)

\* display_formatted_menu()
DisplayFormattedMenu ==
    "# Shake Shack Menu\n\n"
    \o FormatCategoriesFrom(GetAllMenuItems, CategoriesFrom(GetAllMenuItems, 1, <<>>), 1)

-----------------------------------------------------------------------------
(* llm.py: process_message *)

ExtractedFromMessages ==
    {<<m, ExtractOrderItemsFromText(m)>> : m \in Messages \cup Utterances}

\* extract_order_items_from_text(user_message), computed once per message
TextItems(user_message) ==
    (CHOOSE p \in ExtractedFromMessages : p[1] = user_message)[2]

\* extract_order_items(user_message): the text first, then the service
ExtractOrderItems(llm, user_message, o) ==
    IF TextItems(user_message) # <<>> THEN List(TextItems(user_message))
    ELSE ExtractOrderItemsUsingLLM(llm, o)

\* what a call of process_message leaves: the cart, the string returned, and
\* whether the string is the error handler's conversion of an exception
\* raised by the body
Result(c, response) ==
    [cart |-> c, response |-> response, failed |-> FALSE, intent |-> "",
     classify_raised |-> FALSE]

\* the wrapper of process_message catching e
Failure(c, e) ==
    [cart |-> c, response |-> LLMErrorHandler(Str(TryAgain), SystemsTrouble, e).s,
     failed |-> TRUE, intent |-> "", classify_raised |-> FALSE]

\* return <cart operation>: its response, or its exception
ReturnOf(r) == IF r.raised THEN Failure(r.cart, NoneArithmetic) ELSE Result(r.cart, r.response)

\* what the loop of the order_placement branch leaves
Added(c, added_items, raised) == [cart |-> c, added_items |-> added_items, raised |-> raised]

\* item_data.get("name", "") and item_data.get("quantity", 1)
NameOf(item_data) == IF "name" \in DOMAIN item_data THEN item_data.name ELSE ""
QuantityOf(item_data) == IF "quantity" \in DOMAIN item_data THEN item_data.quantity ELSE 1

RECURSIVE AddExtractedItems(_, _, _, _)
\* the loop's step after add_to_order(menu_item, item_quantity) has left r
AfterAdd(r, extracted_items, i, added_items, menu_item, item_quantity) ==
    IF r.raised THEN Added(r.cart, added_items, TRUE)
    ELSE AddExtractedItems(r.cart, extracted_items, i + 1,
                           Append(added_items, <<menu_item, item_quantity>>))

\* the loop's step for extracted item i, menu_item what find_menu_item found
AddFound(c, extracted_items, i, added_items, menu_item, item_quantity) ==
    IF menu_item = NoMenuItem
    THEN AddExtractedItems(c, extracted_items, i + 1, added_items)
    ELSE AfterAdd(AddToOrder(c, menu_item, item_quantity), extracted_items, i,
                  added_items, menu_item, item_quantity)

\* the loop of the order_placement branch from extracted item i on
AddExtractedItems(c, extracted_items, i, added_items) ==
    IF i > Len(extracted_items) THEN Added(c, added_items, FALSE)
    ELSE AddFound(c, extracted_items, i, added_items,
                  FindKnownMenuItem(NameOf(extracted_items[i])),
                  QuantityOf(extracted_items[i]))

RECURSIVE AddedItemsText(_, _)
AddedItemsText(added_items, i) ==
    IF i > Len(added_items) THEN ""
    ELSE "* " \o ToString(added_items[i][2]) \o "x " \o added_items[i][1].name \o " - $"
         \o Money(added_items[i][1].price * added_items[i][2]) \o "\n"
         \o AddedItemsText(added_items, i + 1)

\* the order_placement branch after its loop has left r
PlacementReply(c, r) ==
    IF r.raised THEN Failure(r.cart, NoneArithmetic)
    ELSE IF r.added_items = <<>> THEN Result(c, CouldNotIdentify)
    ELSE Result(Cart(r.cart.order, r.cart.total_price, TRUE),
                "**Order Added Successfully**\n\nI've added the following to your order:\n\n"
                \o AddedItemsText(r.added_items, 1)
                \o "\n**Your current total is $" \o Money(r.cart.total_price) \o "**")

\* empties the cart when nothing was extracted
PlaceExtractedClearsOnMiss(c, extracted_items) ==
    IF ~Truthy(extracted_items) THEN Result(ClearOrder(c), CouldNotIdentify)
    ELSE IF extracted_items.kind = "str" THEN Failure(c, StrHasNoGet)
    ELSE PlacementReply(c, AddExtractedItems(c, extracted_items.xs, 1, <<>>))

\* the order_placement branch, extracted_items what extract_order_items returned
PlaceExtracted(c, extracted_items) ==
    IF ~Truthy(extracted_items) THEN Result(c, CouldNotIdentify)
    ELSE IF extracted_items.kind = "str" THEN Failure(c, StrHasNoGet)
    ELSE PlacementReply(c, AddExtractedItems(c, extracted_items.xs, 1, <<>>))

\* the order_placement branch
OrderPlacement(c, llm, user_message, o) ==
    PlaceExtracted(c, ExtractOrderItems(llm, user_message, o))

\* the general conversation at the end of process_message; the list of the
\* order's lines raises where a quantity is None
GeneralQuestion(c, llm, o) ==
    IF \E i \in 1..Len(c.order) : c.order[i].quantity = None
    THEN Failure(c, NoneComparison)
    ELSE Result(c, GeneralConversation(llm, o))

\* whether the quantity_update branch returns (it falls through to the
\* general conversation otherwise)
UpdateRequested(u) == u.kind = "tuple" /\ u.xs[1] /\ u.xs[3] # None

\* the quantity_update branch, u what process_quantity_update returned
UpdateProcessed(c, llm, u, o3) ==
    IF u.kind = "str" THEN Failure(c, UnpackError)
    ELSE IF UpdateRequested(u)
    THEN IF Truthy(u.xs[2]) THEN ReturnOf(UpdateOrderQuantity(c, u.xs[2].s, u.xs[3]))
         ELSE IF Len(c.order) = 1
         THEN ReturnOf(UpdateOrderQuantity(c, c.order[1].name, u.xs[3]))
         ELSE Result(c, NotSureWhichToChange)
    ELSE GeneralQuestion(c, llm, o3)

\* the quantity_update branch; o3 answers the general conversation
QuantityUpdate(c, llm, o2, o3) == UpdateProcessed(c, llm, ProcessQuantityUpdate(llm, o2), o3)

\* the price_inquiry branch, price_item what extract_price_inquiry_item returned
PriceReply(c, price_item) ==
    IF ~Truthy(price_item) THEN Result(c, NotSureWhichAsked)
    ELSE IF price_item.kind = "str" THEN Failure(c, StrIndexError)
    ELSE Result(c, "The " \o price_item.d.name \o " costs $" \o Money(price_item.d.price)
                   \o " and contains " \o ToString(price_item.d.calories) \o " calories.")

\* the price_inquiry branch
PriceInquiry(c, llm, user_message, o) ==
    PriceReply(c, ExtractPriceInquiryItem(llm, user_message, o))

\* the remove_item branch, item_name what extract_item_to_remove returned
RemoveNamed(c, item_name) ==
    IF Truthy(item_name) THEN ReturnOf(RemoveFromOrder(c, item_name.s))
    ELSE Result(c, NotSureWhichToRemove)

\* the remove_item branch
RemoveItem(c, llm, o) == RemoveNamed(c, ExtractItemToRemove(llm, o))

\* the cart_inquiry branch, s what get_order_summary did
SummaryReply(c, s) ==
    IF s.raised THEN Failure(c, NoneComparison) ELSE Result(c, s.text)

\* answers with the summary and empties the order
CartInquiryClears(c) == SummaryReply(ClearOrder(c), GetOrderSummary(c))

\* the cart_inquiry branch
CartInquiry(c) == SummaryReply(c, GetOrderSummary(c))

\* the branch of process_message the intent selects
Branch(c, llm, user_message, intent, o2, o3) ==
    CASE intent = "cart_inquiry" -> CartInquiry(c)
      [] intent = "quantity_update" -> QuantityUpdate(c, llm, o2, o3)
      [] intent = "order_placement" -> OrderPlacement(c, llm, user_message, o2)
      [] intent = "price_inquiry" -> PriceInquiry(c, llm, user_message, o2)
      [] intent = "remove_item" -> RemoveItem(c, llm, o2)
      [] OTHER -> GeneralQuestion(c, llm, o2)

\* the body of process_message after classify_intent has returned intent
Classified(c, llm, user_message, intent, o1, o2, o3) ==
    [Branch(c, llm, user_message, intent, o2, o3)
        EXCEPT !.intent = intent, !.classify_raised = o1.raises]

\* process_message with the client get_llm returned
WithLLM(c, llm, environment_key, user_message, o1, o2, o3) ==
    IF llm = ""
    THEN Result(c, IF environment_key # "" THEN DefaultKeyNotice ELSE ProvideKeyNotice)
    ELSE IF MentionsMenu(user_message) THEN Result(c, DisplayFormattedMenu)
    ELSE Classified(c, llm, user_message, ClassifyIntent(llm, user_message, o1),
                    o1, o2, o3)

\* process_message(user_message) with its wrapper: o1 answers the
\* classifier's call, o2 the call of the branch, o3 the general conversation
\* a quantity_update falls through to
ProcessMessage(c, session_key, environment_key, user_message, o1, o2, o3) ==
    WithLLM(c, GetLLM(session_key, environment_key), environment_key, user_message,
            o1, o2, o3)

-----------------------------------------------------------------------------
(* The cart driven call by call *)

\* the menu items handed to add_to_order
CartCatalog == {FALLBACK_MENU[2], FALLBACK_MENU[6], FALLBACK_MENU[7], NoMenuItem}

\* the quantities handed to add_to_order and update_order_quantity
Quantities == (0 - 1)..MaxQty

\* the quantities a line of the model may hold
LineQuantities == (0 - 1)..MaxQty

Call(op, menu_item, item_name, quantity, response) ==
    [op |-> op, menu_item |-> menu_item, item_name |-> item_name,
     quantity |-> quantity, response |-> response, user_message |-> "",
     intent |-> "", classify_raised |-> FALSE, failed |-> FALSE]

SetCart(c) ==
    /\ order' = c.order
    /\ total_price' = c.total_price
    /\ update_sidebar' = c.update_sidebar

Init ==
    /\ menu_cache = GetAllMenuItems
    /\ cache_data = GetAllMenuItems
    /\ order = <<>>
    /\ total_price = 0
    /\ update_sidebar = FALSE
    /\ openai_api_key = ""
    /\ OPENAI_API_KEY = ""
    /\ last = Call("init", NoMenuItem, "", 0, "")

add_to_order ==
    \E menu_item \in CartCatalog, quantity \in Quantities :
        LET r == AddToOrder(Cart(order, total_price, update_sidebar), menu_item, quantity) IN
        /\ \A i \in 1..Len(r.cart.order) : r.cart.order[i].quantity \in LineQuantities
        /\ SetCart(r.cart)
        /\ UNCHANGED <<keys, menus>>
        /\ last' = Call("add_to_order", menu_item, "", quantity, "")

update_order_quantity ==
    \E item_name \in SearchTerms, new_quantity \in Quantities :
        LET r == UpdateOrderQuantity(Cart(order, total_price, update_sidebar),
                                     item_name, new_quantity) IN
        /\ SetCart(r.cart)
        /\ UNCHANGED <<keys, menus>>
        /\ last' = Call("update_order_quantity", NoMenuItem, item_name, new_quantity,
                        r.response)

remove_from_order ==
    \E item_name \in SearchTerms :
        LET r == RemoveFromOrder(Cart(order, total_price, update_sidebar), item_name) IN
        /\ SetCart(r.cart)
        /\ UNCHANGED <<keys, menus>>
        /\ last' = Call("remove_from_order", NoMenuItem, item_name, 0, r.response)

clear_order ==
    /\ SetCart(ClearOrder(Cart(order, total_price, update_sidebar)))
    /\ UNCHANGED <<keys, menus>>
    /\ last' = Call("clear_order", NoMenuItem, "", 0, "Your order has been cleared.")

\* render_ui: the rerun that follows a change of the cart
render_ui ==
    /\ update_sidebar
    /\ update_sidebar' = FALSE
    /\ UNCHANGED <<order, total_price, openai_api_key, OPENAI_API_KEY, menus>>
    /\ last' = Call("render_ui", NoMenuItem, "", 0, "")

NextCart ==
    \/ add_to_order
    \/ update_order_quantity
    \/ remove_from_order
    \/ clear_order
    \/ render_ui

SpecCart == Init /\ [][NextCart]_vars

-----------------------------------------------------------------------------
(* The session driven message by message *)

\* what the service may do with each prompt
ClassifierOutcomes ==
    {Reply(l) : l \in IntentLabels} \cup {Reply(UntidyLabel)} \cup ServiceErrors

ItemExtractionOutcomes ==
    {Reply(t) : t \in {ItemsFries1, ItemsFries0, ItemsFriesNull, ItemsFries1BurgerNull,
                       ItemsBurger1Fries1, ItemsFenced, ItemsNoQuantity, ItemsBroken,
                       NotJson, ItemsMoonBurger1, ItemsFries1Fries2,
                       ItemsFries1MoonBurger1}}
    \cup ServiceErrors

QuantityUpdateOutcomes ==
    {Reply(t) : t \in {UpdateFries2, UpdateUnnamed0, UpdateUnnamed2, UpdateFriesNull,
                       UpdateNone, NotJson}}
    \cup ServiceErrors

ItemNameOutcomes ==
    {Reply(t) : t \in ItemNameTexts} \cup ServiceErrors

ChatOutcomes == {Reply(t) : t \in ChatTexts} \cup ServiceErrors

\* the calls process_message makes: the classifier's
ClassifierCalls(llm, user_message) ==
    IF llm = "" \/ MentionsMenu(user_message) THEN {NoCall}
    ELSE ClassifierOutcomes

\* the call of the branch the intent selects
CallsOfBranch(c, user_message, intent) ==
    CASE intent = "cart_inquiry" -> {NoCall}
      [] intent = "quantity_update" -> QuantityUpdateOutcomes
      [] intent = "order_placement" ->
            IF TextItems(user_message) # <<>> THEN {NoCall} ELSE ItemExtractionOutcomes
      [] intent = "price_inquiry" ->
            IF DirectMatchFrom(GetAllMenuItems, Lower(user_message), 1) # 0
            THEN {NoCall} ELSE ItemNameOutcomes
      [] intent = "remove_item" -> ItemNameOutcomes
      [] OTHER ->
            IF \E i \in 1..Len(c.order) : c.order[i].quantity = None
            THEN {NoCall} ELSE ChatOutcomes

BranchCalls(c, llm, user_message, o1) ==
    IF o1 = NoCall THEN {NoCall}
    ELSE CallsOfBranch(c, user_message, ClassifyIntent(llm, user_message, o1))

\* the general conversation's call after a quantity_update that updates nothing
FallThroughCalls(c, llm, user_message, o1, o2) ==
    IF o1 = NoCall \/ o2 = NoCall THEN {NoCall}
    ELSE IF /\ ClassifyIntent(llm, user_message, o1) = "quantity_update"
            /\ ProcessQuantityUpdate(llm, o2).kind = "tuple"
            /\ ~UpdateRequested(ProcessQuantityUpdate(llm, o2))
            /\ \A i \in 1..Len(c.order) : c.order[i].quantity # None
    THEN ChatOutcomes
    ELSE {NoCall}

\* the environment's OPENAI_API_KEY and the keys typed into the sidebar
EnvironmentKeys == {"", "sk-env"}
ApiKeyInputs == {"", "sk-user"}

InitSession ==
    /\ menu_cache = GetAllMenuItems
    /\ cache_data = GetAllMenuItems
    /\ order = <<>>
    /\ total_price = 0
    /\ update_sidebar = FALSE
    /\ openai_api_key = ""
    /\ OPENAI_API_KEY \in EnvironmentKeys
    /\ last = Call("init", NoMenuItem, "", 0, "")

\* the session after process_message(user_message) has left r
Handled(user_message, r) ==
    /\ \A i \in 1..Len(r.cart.order) :
            r.cart.order[i].quantity \in LineQuantities \cup {None}
    /\ SetCart(r.cart)
    /\ UNCHANGED <<keys, menus>>
    /\ last' = [Call("process_message", NoMenuItem, "", 0, r.response)
                    EXCEPT !.user_message = user_message,
                           !.intent = r.intent,
                           !.classify_raised = r.classify_raised,
                           !.failed = r.failed]

\* handle_user_input: a message of the user goes through process_message;
\* o1, o2, o3 answer the calls it makes of the completion service
process_message ==
    \E user_message \in Messages :
    \E o1 \in ClassifierCalls(GetLLM(openai_api_key, OPENAI_API_KEY), user_message) :
    \E o2 \in BranchCalls(Cart(order, total_price, update_sidebar),
                          GetLLM(openai_api_key, OPENAI_API_KEY), user_message, o1) :
    \E o3 \in FallThroughCalls(Cart(order, total_price, update_sidebar),
                               GetLLM(openai_api_key, OPENAI_API_KEY), user_message,
                               o1, o2) :
        Handled(user_message,
                ProcessMessage(Cart(order, total_price, update_sidebar),
                               openai_api_key, OPENAI_API_KEY, user_message,
                               o1, o2, o3))

\* what save_order returns: the identifier of the saved order, or None
OrderIds == {"", "65f0c0ffee"}

\* clears the order whether or not save_order returned an identifier
FinalizeOrderClearsAlways(c, order_id) ==
    IF c.order = <<>>
    THEN [cart |-> c, response |-> "Cannot finalize an empty order.",
          save_order_called |-> FALSE]
    ELSE [cart |-> ClearOrder(c),
          response |-> "Thank you for your order! Your order ID is: " \o order_id,
          save_order_called |-> TRUE]

\* finalize_order(), order_id what save_order returned
FinalizeOrder(c, order_id) ==
    IF c.order = <<>>
    THEN [cart |-> c, response |-> "Cannot finalize an empty order.",
          save_order_called |-> FALSE]
    ELSE IF order_id # ""
    THEN [cart |-> ClearOrder(c),
          response |-> "Thank you for your order! Your order ID is: " \o order_id,
          save_order_called |-> TRUE]
    ELSE [cart |-> c,
          response |-> "Sorry, there was a problem saving your order. Please try again.",
          save_order_called |-> TRUE]

\* the buttons of the sidebar
Buttons == {"", "Clear Order", "Checkout"}

\* setup_sidebar: the key typed into the sidebar, if any, becomes the
\* session's key; the lines of the order are listed (a None quantity raises
\* and ends the run) and the button clicked, if any, clears or finalizes the order
setup_sidebar ==
    \E api_key_input \in ApiKeyInputs, clicked \in Buttons, order_id \in OrderIds :
        /\ openai_api_key' = IF api_key_input # "" THEN api_key_input ELSE openai_api_key
        /\ UNCHANGED <<OPENAI_API_KEY, menus>>
        /\ IF \/ clicked = ""
              \/ order = <<>>
              \/ \E i \in 1..Len(order) : order[i].quantity = None
           THEN /\ UNCHANGED <<order, total_price, update_sidebar>>
                /\ last' = Call("setup_sidebar", NoMenuItem, "", 0, "")
           ELSE IF clicked = "Clear Order"
           THEN /\ SetCart(ClearOrder(Cart(order, total_price, update_sidebar)))
                /\ last' = Call("clear_order", NoMenuItem, "", 0,
                                "Your order has been cleared.")
           ELSE /\ SetCart(FinalizeOrder(Cart(order, total_price, update_sidebar),
                                         order_id).cart)
                /\ last' = Call("finalize_order", NoMenuItem, "", 0,
                                FinalizeOrder(Cart(order, total_price, update_sidebar),
                                              order_id).response)

Next ==
    \/ process_message
    \/ setup_sidebar
    \/ render_ui

Spec == InitSession /\ [][Next]_vars

-----------------------------------------------------------------------------
(* extract_order_items called on its own *)

\* an error of the service that llm_error_handler has no text of its own for
OtherError == Raise("ValueError", "boom")

\* what the service may do with the prompt of extract_order_items_using_llm
ExtractionOutcomes == ItemExtractionOutcomes \cup {OtherError}

\* whether extract_order_items goes on to extract_order_items_using_llm
UsesLLMStage(user_message) == TextItems(user_message) = <<>>

\* the call extract_order_items makes of the service
ExtractionCalls(llm, user_message) ==
    IF llm = "" \/ ~UsesLLMStage(user_message) THEN {NoCall} ELSE ExtractionOutcomes

\* what a call of extract_order_items has done
Extraction(user_message, llm, o, result) ==
    [op |-> "extract_order_items", user_message |-> user_message, llm |-> llm,
     o |-> o, llm_stage |-> UsesLLMStage(user_message), result |-> result]

\* a session with any keys and an empty cart
InitExtract ==
    /\ menu_cache = GetAllMenuItems
    /\ cache_data = GetAllMenuItems
    /\ order = <<>>
    /\ total_price = 0
    /\ update_sidebar = FALSE
    /\ openai_api_key \in ApiKeyInputs
    /\ OPENAI_API_KEY \in EnvironmentKeys
    /\ last = Call("init", NoMenuItem, "", 0, "")

\* extract_order_items(user_message), its call of the service answered by o
extract_order_items ==
    \E user_message \in Utterances :
    \E o \in ExtractionCalls(GetLLM(openai_api_key, OPENAI_API_KEY), user_message) :
        /\ last' = Extraction(user_message, GetLLM(openai_api_key, OPENAI_API_KEY), o,
                              ExtractOrderItems(GetLLM(openai_api_key, OPENAI_API_KEY),
                                                user_message, o))
        /\ UNCHANGED <<order, total_price, update_sidebar, keys, menus>>

NextExtract == extract_order_items

SpecExtract == InitExtract /\ [][NextExtract]_vars

-----------------------------------------------------------------------------
(* One call from a state of the session *)

\* the menu items of the lines the session starts with
TurnCatalog == {FALLBACK_MENU[1], FALLBACK_MENU[7]}

\* the quantities of those lines: the ones add_to_order and
\* update_order_quantity leave, 0 and None among them
TurnQuantities == 0..MaxQty \cup {None}

TurnLines == {CartLine(m, q) : m \in TurnCatalog, q \in TurnQuantities}

\* the orders the session starts with: up to two lines, no name twice
TurnOrders ==
    {<<>>} \cup {<<l>> : l \in TurnLines}
    \cup {p \in {<<l1, l2>> : l1 \in TurnLines, l2 \in TurnLines} : p[1].name # p[2].name}

\* total_price of such an order: a line whose quantity is None was appended
\* by an add_to_order that raised before adding to the total
RECURSIVE TurnTotal(_)
TurnTotal(lines) ==
    IF lines = <<>> THEN 0
    ELSE (IF Head(lines).quantity = None THEN 0
          ELSE Head(lines).price * Head(lines).quantity)
         + TurnTotal(Tail(lines))

\* the messages of the user
TurnMessages ==
    {"I'll have 2 shackburgers and a fries", "I want a Moon Burger"} \cup MenuRequests

InitTurn ==
    /\ menu_cache = GetAllMenuItems
    /\ cache_data = GetAllMenuItems
    /\ order \in TurnOrders
    /\ total_price = TurnTotal(order)
    /\ update_sidebar = FALSE
    /\ openai_api_key \in ApiKeyInputs
    /\ OPENAI_API_KEY \in EnvironmentKeys
    /\ last = Call("init", NoMenuItem, "", 0, "")

\* the session after process_message(user_message), run with the client llm
\* and the service's answers o1, o2, o3, has left r
Turned(user_message, llm, o1, o2, o3, r) ==
    /\ SetCart(r.cart)
    /\ UNCHANGED <<keys, menus>>
    /\ last' = [op |-> "handle_user_input", user_message |-> user_message,
                llm |-> llm, o1 |-> o1, o2 |-> o2, o3 |-> o3, intent |-> r.intent,
                classify_raised |-> r.classify_raised, failed |-> r.failed,
                response |-> r.response]

\* handle_user_input: one message of the user goes through process_message
handle_user_input ==
    /\ last.op = "init"
    /\ \E user_message \in TurnMessages :
       \E o1 \in ClassifierCalls(GetLLM(openai_api_key, OPENAI_API_KEY), user_message) :
       \E o2 \in BranchCalls(Cart(order, total_price, update_sidebar),
                             GetLLM(openai_api_key, OPENAI_API_KEY), user_message, o1) :
       \E o3 \in FallThroughCalls(Cart(order, total_price, update_sidebar),
                                  GetLLM(openai_api_key, OPENAI_API_KEY), user_message,
                                  o1, o2) :
           Turned(user_message, GetLLM(openai_api_key, OPENAI_API_KEY), o1, o2, o3,
                  ProcessMessage(Cart(order, total_price, update_sidebar),
                                 openai_api_key, OPENAI_API_KEY, user_message,
                                 o1, o2, o3))

\* the session after finalize_order() has left r
Finalized(order_id, r) ==
    /\ SetCart(r.cart)
    /\ UNCHANGED <<keys, menus>>
    /\ last' = [op |-> "finalize_order", order_id |-> order_id,
                save_order_called |-> r.save_order_called, response |-> r.response]

\* finalize_order(), save_order returning order_id if it is called
finalize_order ==
    /\ last.op = "init"
    /\ \E order_id \in OrderIds :
           Finalized(order_id,
                     FinalizeOrder(Cart(order, total_price, update_sidebar), order_id))

NextTurn ==
    \/ handle_user_input
    \/ finalize_order
    \/ clear_order

SpecTurn == InitTurn /\ [][NextTurn]_vars

-----------------------------------------------------------------------------
(* Properties of the cart *)

\* the search term of the last call is contained in the name of line i of lines
TermMatches(lines, i) == Contains(Lower(last'.item_name), Lower(lines[i].name))

NotFoundReply == last.response = NotFoundInOrder(last.item_name)

\* C1: after any sequence of add_to_order, update_order_quantity,
\* remove_from_order and clear_order calls, total_price is the sum over the
\* cart lines of price * quantity (prices in cents).
C1_TotalIsSumOfLines == total_price = LinesTotal(order)

C1_Witness ==
    /\ last.op = "update_order_quantity"
    /\ ~NotFoundReply
    /\ Len(order) >= 2
    /\ \E i \in 1..Len(order) : order[i].quantity >= 2

C3_UniqueNames ==
    \A i, j \in 1..Len(order) :
        i # j => Lower(order[i].name) # Lower(order[j].name)

C3_AddMerges ==
    (/\ last'.op = "add_to_order"
     /\ last'.menu_item # NoMenuItem
     /\ \E i \in 1..Len(order) : Lower(order[i].name) = Lower(last'.menu_item.name))
    => /\ Len(order') = Len(order)
       /\ \A i \in 1..Len(order) :
            order'[i] = IF Lower(order[i].name) = Lower(last'.menu_item.name)
                        THEN [order[i] EXCEPT !.quantity = @ + last'.quantity]
                        ELSE order[i]

\* C3: the cart never holds two lines whose names are equal ignoring case:
\* add_to_order for an item that already has a line adds the quantity to
\* that line and appends nothing.
C3_OneLinePerItem == []C3_UniqueNames /\ [][C3_AddMerges]_vars

C3_Witness ==
    /\ last.op = "add_to_order"
    /\ last.quantity >= 1
    /\ \E i \in 1..Len(order) :
            /\ order[i].name = last.menu_item.name
            /\ order[i].quantity > last.quantity

\* C4: update_order_quantity(name, q) with q <= 0 that matches a line removes
\* that line, takes its price * its quantity off total_price and leaves the
\* other lines as they were.
C4_UpdateToZeroRemoves ==
    [][(/\ last'.op = "update_order_quantity"
        /\ last'.quantity <= 0
        /\ \E i \in 1..Len(order) : TermMatches(order, i))
       => \E i \in 1..Len(order) :
            /\ TermMatches(order, i)
            /\ order' = Pop(order, i)
            /\ total_price' = total_price - order[i].price * order[i].quantity]_vars

C4_Witness ==
    /\ last.op = "update_order_quantity"
    /\ last.quantity <= 0
    /\ ~NotFoundReply
    /\ Len(order) >= 1

\* C5: update_order_quantity(name, q) with q >= 1 that matches a line sets
\* that line's quantity to q, changes total_price by (q - old quantity) *
\* price, and leaves the line's position and every other line as they were.
C5_UpdateSetsQuantity ==
    [][(/\ last'.op = "update_order_quantity"
        /\ last'.quantity >= 1
        /\ \E i \in 1..Len(order) : TermMatches(order, i))
       => \E i \in 1..Len(order) :
            /\ TermMatches(order, i)
            /\ order' = [order EXCEPT ![i].quantity = last'.quantity]
            /\ total_price' = total_price
                    + (last'.quantity - order[i].quantity) * order[i].price]_vars

C5_Witness ==
    /\ last.op = "update_order_quantity"
    /\ last.quantity >= 2
    /\ ~NotFoundReply
    /\ Len(order) >= 2
    /\ \E i \in 1..Len(order) :
            /\ Contains(Lower(last.item_name), Lower(order[i].name))
            /\ order[i].quantity = last.quantity

\* C6: remove_from_order(name) that matches a line removes that one line and
\* takes its price * quantity off total_price; the other lines keep their
\* contents and their order.
C6_RemoveTakesOneLine ==
    [][(/\ last'.op = "remove_from_order"
        /\ \E i \in 1..Len(order) : TermMatches(order, i))
       => \E i \in 1..Len(order) :
            /\ TermMatches(order, i)
            /\ order' = Pop(order, i)
            /\ total_price' = total_price - order[i].price * order[i].quantity]_vars

C6_Witness ==
    /\ last.op = "remove_from_order"
    /\ ~NotFoundReply
    /\ Len(order) >= 2

\* C7: when no line's name contains the search term (ignoring case),
\* update_order_quantity and remove_from_order return the not-found message
\* and leave the lines, total_price and update_sidebar as they were.
C7_NotFoundChangesNothing ==
    [][(/\ last'.op \in {"update_order_quantity", "remove_from_order"}
        /\ \A i \in 1..Len(order) : ~TermMatches(order, i))
       => /\ last'.response = NotFoundInOrder(last'.item_name)
          /\ order' = order
          /\ total_price' = total_price
          /\ update_sidebar' = update_sidebar]_vars

C7_Witness ==
    /\ last.op \in {"update_order_quantity", "remove_from_order"}
    /\ NotFoundReply
    /\ Len(order) >= 1
    /\ ~update_sidebar

-----------------------------------------------------------------------------
(* Properties of process_message *)

\* C2: in every state reached by processing user messages through
\* process_message, every cart line has a quantity of at least 1 (a quantity
\* that is None is no such quantity).
C2_QuantityAtLeastOne ==
    \A i \in 1..Len(order) : order[i].quantity # None /\ order[i].quantity >= 1

\* C8: process_message returns a non-empty string, whatever the message
\* and whatever the completion service does.
C8_ReplyIsNonEmpty == last.op = "process_message" => last.response # ""

\* C9: when the completion service raises during classify_intent,
\* classify_intent returns the label general_question.
C9_ClassifierFallsBack ==
    (last.op = "process_message" /\ last.classify_raised)
    => last.intent = "general_question"

\* C10: when process_message ends in an exception converted into an apology,
\* the cart lines and total_price are what they were before the message.
C10_FailureLeavesCart ==
    [][(last'.op = "process_message" /\ last'.failed)
       => (order' = order /\ total_price' = total_price)]_vars

-----------------------------------------------------------------------------
(* get_all_menu_items with a menu store *)

\* what get_db() and the query of menu_items do in one call
NoDb == [kind |-> "no db", all_items |-> <<>>]
GetDbRaises == [kind |-> "get_db raises", all_items |-> <<>>]
FindRaises == [kind |-> "find raises", all_items |-> <<>>]
Found(all_items) == [kind |-> "found", all_items |-> all_items]

\* the items a store may hold: two of the built-in menu, one at another
\* price, and one the built-in menu does not have
StoreCatalog == {FALLBACK_MENU[1], FALLBACK_MENU[7],
                 MenuItem("Fries", 429, 470, "Fries"),
                 MenuItem("Hot Dog", 499, 350, "Flat-Top Dogs")}

MaxStoreItems == 2

Distinct(m) == \A i \in DOMAIN m : \A j \in DOMAIN m : i # j => m[i] # m[j]

\* the menus of at most MaxStoreItems items, none twice
StoreMenus ==
    {m \in UNION {[1..n -> StoreCatalog] : n \in 0..MaxStoreItems} : Distinct(m)}

DbOutcomes == {NoDb, GetDbRaises, FindRaises} \cup {Found(m) : m \in StoreMenus}

\* the try block without its handler: what it returns, or that it raised
QueryWithoutFallback(db) ==
    IF db.kind \in {"get_db raises", "find raises"}
    THEN [raised |-> TRUE, result |-> <<>>]
    ELSE [raised |-> FALSE, result |-> db.all_items]

\* the try block of get_all_menu_items and its except clause
QueryMenu(db) ==
    IF db.kind \in {"get_db raises", "find raises"}
    THEN [raised |-> FALSE, result |-> FALLBACK_MENU]
    ELSE IF db.kind = "found" /\ db.all_items # <<>>
    THEN [raised |-> FALSE, result |-> db.all_items]
    ELSE [raised |-> FALSE, result |-> FALLBACK_MENU]

Fetched(session_cache, r) ==
    [result |-> r.result, raised |-> r.raised,
     menu_cache |-> IF r.raised THEN session_cache ELSE r.result]

\* the body of get_all_menu_items: the session's menu if it has one, else
\* the store's, else the built-in one
FetchAllMenuItems(session_cache, db) ==
    IF session_cache # <<>>
    THEN [result |-> session_cache, raised |-> FALSE, menu_cache |-> session_cache]
    ELSE Fetched(session_cache, QueryMenu(db))

Memoized(r) ==
    [result |-> r.result, raised |-> r.raised, menu_cache |-> r.menu_cache,
     cache_data |-> IF r.raised THEN <<>> ELSE r.result]

\* get_all_menu_items under st.cache_data: the entry if there is one, else
\* the body, whose result becomes the entry
CachedGetAllMenuItems(entry, session_cache, db) ==
    IF entry # <<>>
    THEN [result |-> entry, raised |-> FALSE, menu_cache |-> session_cache,
          cache_data |-> entry]
    ELSE Memoized(FetchAllMenuItems(session_cache, db))

\* the store is asked only when neither cache has a menu
Consulted(entry, session_cache) == entry = <<>> /\ session_cache = <<>>

MenuFetched(db, consulted, r) ==
    /\ menu_cache' = r.menu_cache
    /\ cache_data' = r.cache_data
    /\ UNCHANGED <<order, total_price, update_sidebar, keys>>
    /\ last' = [op |-> "get_all_menu_items", db |-> db, consulted |-> consulted,
                result |-> r.result, raised |-> r.raised]

get_all_menu_items ==
    \E db \in DbOutcomes :
        MenuFetched(db, Consulted(cache_data, menu_cache),
                    CachedGetAllMenuItems(cache_data, menu_cache, db))

\* the entry of st.cache_data is dropped when its ttl of an hour has passed
cache_data_expires ==
    /\ cache_data # <<>>
    /\ cache_data' = <<>>
    /\ UNCHANGED <<order, total_price, update_sidebar, keys, menu_cache>>
    /\ last' = Call("cache_data_expires", NoMenuItem, "", 0, "")

\* a new session starts without a menu of its own
new_session ==
    /\ menu_cache # <<>>
    /\ menu_cache' = <<>>
    /\ UNCHANGED <<order, total_price, update_sidebar, keys, cache_data>>
    /\ last' = Call("new_session", NoMenuItem, "", 0, "")

InitMenu ==
    /\ order = <<>>
    /\ total_price = 0
    /\ update_sidebar = FALSE
    /\ openai_api_key = ""
    /\ OPENAI_API_KEY = ""
    /\ menu_cache = <<>>
    /\ cache_data = <<>>
    /\ last = Call("init", NoMenuItem, "", 0, "")

NextMenu ==
    \/ get_all_menu_items
    \/ cache_data_expires
    \/ new_session

SpecMenu == InitMenu /\ [][NextMenu]_vars

-----------------------------------------------------------------------------
(* find_menu_item called on its own, over the menu of a store *)

\* the items of the stores: names that contain one another, and names
\* that share words
FindItems == {FALLBACK_MENU[2], FALLBACK_MENU[6], FALLBACK_MENU[4], FALLBACK_MENU[7],
              MenuItem("Double Bacon Burger", 1049, 850, "Burgers")}

MaxMenuItems == 3

\* the menus of at most MaxMenuItems of these items, none twice
FindMenus ==
    {m \in UNION {[1..n -> FindItems] : n \in 1..MaxMenuItems} : Distinct(m)}

\* the names asked for
FindQueries == {"", "cheeseburger", "acon cheeseburger", "FRIES ", "large fries",
                "bacon", "burger bacon", "cheeseburger bacon", "bacon avocado burger",
                "double avocado"}

\* the session has fetched the menu of its store
InitFind ==
    /\ order = <<>>
    /\ total_price = 0
    /\ update_sidebar = FALSE
    /\ openai_api_key = ""
    /\ OPENAI_API_KEY = ""
    /\ menu_cache \in FindMenus
    /\ cache_data = menu_cache
    /\ last = Call("init", NoMenuItem, "", 0, "")

Lookup(item_name, all_items) ==
    [op |-> "find_menu_item", item_name |-> item_name, all_items |-> all_items,
     result |-> FindMenuItemIn(all_items, item_name)]

\* find_menu_item(item_name); get_all_menu_items() is answered from the
\* caches, which it leaves as they are
find_menu_item ==
    /\ last.op = "init"
    /\ \E item_name \in FindQueries :
           last' = Lookup(item_name,
                          CachedGetAllMenuItems(cache_data, menu_cache, NoDb).result)
    /\ UNCHANGED <<order, total_price, update_sidebar, keys, menus>>

NextFind == find_menu_item

SpecFind == InitFind /\ [][NextFind]_vars

-----------------------------------------------------------------------------
(* app.py: its own process_message, for the messages that mention the menu *)

RECURSIVE InfoItemsFrom(_, _, _)
InfoItemsFrom(menu_items, category, i) ==
    IF i > Len(menu_items) THEN ""
    ELSE (IF menu_items[i].category = category
          THEN "- " \o menu_items[i].name \o ": $" \o Money(menu_items[i].price)
               \o ", " \o ToString(menu_items[i].calories) \o " calories\n"
          ELSE "")
         \o InfoItemsFrom(menu_items, category, i + 1)

RECURSIVE InfoCategoriesFrom(_, _, _)
InfoCategoriesFrom(menu_items, categories, k) ==
    IF k > Len(categories) THEN ""
    ELSE "\n" \o categories[k] \o ":\n"
         \o InfoItemsFrom(menu_items, categories[k], 1)
         \o InfoCategoriesFrom(menu_items, categories, k + 1)

\* prepare_menu_info() of app.py over the items get_all_menu_items() returns
PrepareMenuInfo(menu_items) ==
    "Shake Shack Menu Information:\n"
    \o InfoCategoriesFrom(menu_items, CategoriesFrom(menu_items, 1, <<>>), 1)

AppMenuReply(menu_items) == "Here's our current menu:\n\n" \o PrepareMenuInfo(menu_items)

\* classify_intent of app.py, its call of the service answered by o
AppClassifyIntent(llm, o) ==
    IF llm = "" THEN "unknown"
    ELSE IF o.raises THEN LLMErrorHandler(Str("unknown"), "", o).s
    ELSE Lower(Strip(o.content))

\* process_message of app.py up to its test for "menu", which every message
\* of MenuRequests passes: the key, then classify_intent, then the test
AppProcessMessage(c, llm, environment_key, menu_items, user_message, o1) ==
    IF llm = ""
    THEN Result(c, IF environment_key # "" THEN DefaultKeyNotice ELSE ProvideKeyNotice)
    ELSE [Result(c, AppMenuReply(menu_items))
            EXCEPT !.intent = AppClassifyIntent(llm, o1), !.classify_raised = o1.raises]

\* the calls classify_intent of app.py makes
AppClassifierCalls(llm) == IF llm = "" THEN {NoCall} ELSE ClassifierOutcomes

AppHandled(user_message, llm, o1, r) ==
    /\ SetCart(r.cart)
    /\ UNCHANGED <<keys, menus>>
    /\ last' = [op |-> "app_process_message", user_message |-> user_message,
                llm |-> llm, o1 |-> o1, intent |-> r.intent,
                classify_raised |-> r.classify_raised, failed |-> r.failed,
                response |-> r.response]

\* one message that mentions the menu goes through process_message of
\* app.py; get_all_menu_items() returns the session's menu_cache
app_process_message ==
    /\ last.op = "init"
    /\ \E user_message \in MenuRequests :
       \E o1 \in AppClassifierCalls(GetLLM(openai_api_key, OPENAI_API_KEY)) :
           AppHandled(user_message, GetLLM(openai_api_key, OPENAI_API_KEY), o1,
                      AppProcessMessage(Cart(order, total_price, update_sidebar),
                                        GetLLM(openai_api_key, OPENAI_API_KEY),
                                        OPENAI_API_KEY, menu_cache, user_message, o1))

NextApp == app_process_message

SpecApp == InitTurn /\ [][NextApp]_vars

-----------------------------------------------------------------------------
(* utils.py: retry *)

MaxAttempts == 3

\* what one invocation of the wrapped function does: it raises, or returns
Raises == "raises"
Returns == {"a", "b"}

\* what the invocations of one call do, one after the other
Invocations == [1..(MaxAttempts + 1) -> {Raises} \cup Returns]

\* the while loop of retry's wrapper and the statement after it; outcomes[k]
\* is what the k-th invocation does, invoked the number of invocations made
RECURSIVE RetryFrom(_, _, _, _, _, _)
RetryFrom(max_attempts, outcomes, attempts, current_delay, invoked, slept) ==
    IF attempts < max_attempts
    THEN IF outcomes[invoked + 1] # Raises
         THEN [raised |-> FALSE, result |-> outcomes[invoked + 1],
               invoked |-> invoked + 1, slept |-> slept]
         ELSE IF attempts + 1 = max_attempts
         THEN [raised |-> TRUE, result |-> "", invoked |-> invoked + 1, slept |-> slept]
         ELSE RetryFrom(max_attempts, outcomes, attempts + 1, current_delay * 2,
                        invoked + 1, slept + current_delay)
    ELSE IF outcomes[invoked + 1] # Raises
         THEN [raised |-> FALSE, result |-> outcomes[invoked + 1],
               invoked |-> invoked + 1, slept |-> slept]
         ELSE [raised |-> TRUE, result |-> "", invoked |-> invoked + 1, slept |-> slept]

\* a call of a function wrapped with retry(max_attempts, delay)
Retry(max_attempts, delay, outcomes) ==
    RetryFrom(max_attempts, outcomes, 0, delay, 0, 0)

Retried(max_attempts, outcomes, r) ==
    [op |-> "retry", max_attempts |-> max_attempts, outcomes |-> outcomes,
     raised |-> r.raised, result |-> r.result, invoked |-> r.invoked,
     slept |-> r.slept]

\* one call of a wrapped function, with the default delay of 1
retry ==
    /\ last.op = "init"
    /\ \E max_attempts \in (0 - 1)..MaxAttempts, outcomes \in Invocations :
           last' = Retried(max_attempts, outcomes, Retry(max_attempts, 1, outcomes))
    /\ UNCHANGED <<order, total_price, update_sidebar, keys, menus>>

NextRetry == retry

SpecRetry == Init /\ [][NextRetry]_vars

-----------------------------------------------------------------------------
(* Properties of extract_order_items *)

\* whether the utterance contains the name of a menu item, ignoring case
NamesMenuItem(user_message) ==
    \E i \in 1..Len(GetAllMenuItems) :
        Contains(Lower(GetAllMenuItems[i].name), Lower(user_message))

\* C13: for an utterance that contains the name of a menu item (ignoring
\* case) extract_order_items returns the result of the text-pattern stage and
\* extract_order_items_using_llm is not invoked; the LLM stage is invoked only
\* when the text-pattern stage returned no items.
C13_TextStageFirst ==
    last.op = "extract_order_items" =>
        /\ NamesMenuItem(last.user_message) =>
                /\ ~last.llm_stage
                /\ last.o = NoCall
                /\ last.result = List(TextItems(last.user_message))
        /\ last.llm_stage => TextItems(last.user_message) = <<>>

\* the document of the completion o, as extract_order_items_using_llm reads it
DocumentOf(o) == JsonLoads(CleanJson(o.content))

\* whether the completion o is no JSON document, or one that is not a list
\* of entries with a name and a quantity
Malformed(o) ==
    \/ ~DocumentOf(o).ok
    \/ "items" \notin DOMAIN DocumentOf(o).value
    \/ \E i \in 1..Len(DocumentOf(o).value.items) :
            DOMAIN DocumentOf(o).value.items[i] # {"name", "quantity"}

\* C14: extract_order_items returns a list of {name, quantity} items; when
\* the completion service raises, or returns text that is no JSON or does not
\* have the schema, the list is empty.  (That no exception leaves
\* extract_order_items is how the call is translated: every path returns.)
C14_ExtractionIsAList ==
    last.op = "extract_order_items" =>
        /\ last.result.kind = "list"
        /\ \A i \in 1..Len(last.result.xs) :
                DOMAIN last.result.xs[i] = {"name", "quantity"}
        /\ (last.o # NoCall /\ (last.o.raises \/ Malformed(last.o)))
                => last.result = List(<<>>)

\* the sum of the quantities of the entries from i on that resolve to name
RECURSIVE SummedQuantity(_, _, _)
SummedQuantity(entries, name, i) ==
    IF i > Len(entries) THEN 0
    ELSE (IF FindKnownMenuItem(entries[i].name).name = name
          THEN entries[i].quantity ELSE 0)
         + SummedQuantity(entries, name, i + 1)

\* whether the completion o is a list of entries with a name and an integer
\* quantity
WellFormed(o) ==
    /\ o # NoCall
    /\ ~o.raises
    /\ ~Malformed(o)
    /\ \A i \in 1..Len(DocumentOf(o).value.items) :
            DocumentOf(o).value.items[i].quantity # None

\* C15: when entries of the LLM's items array resolve to the same menu
\* item, the result of the extraction holds that item once, with the sum of
\* the entries' quantities.
C15_CollisionsSummed ==
    (last.op = "extract_order_items" /\ last.llm_stage /\ WellFormed(last.o)) =>
        /\ last.result.kind = "list"
        /\ \A i \in 1..Len(DocumentOf(last.o).value.items) :
                LET m == FindKnownMenuItem(DocumentOf(last.o).value.items[i].name) IN
                m # NoMenuItem =>
                    /\ Cardinality({j \in 1..Len(last.result.xs) :
                                        last.result.xs[j].name = m.name}) = 1
                    /\ \A j \in 1..Len(last.result.xs) :
                            last.result.xs[j].name = m.name =>
                                last.result.xs[j].quantity =
                                    SummedQuantity(DocumentOf(last.o).value.items,
                                                   m.name, 1)

-----------------------------------------------------------------------------
(* Properties of one call of process_message *)

\* C11: with an empty cart, the order_placement message "I'll have 2
\* shackburgers and a fries" leaves exactly the lines ShackBurger x 2, then
\* Fries x 1, and the total 17.97.
C11_EveryNamedItemAdded ==
    [][(/\ last'.op = "handle_user_input"
        /\ last'.user_message = "I'll have 2 shackburgers and a fries"
        /\ last'.intent = "order_placement"
        /\ order = <<>>)
       => (/\ order' = <<CartLine(FALLBACK_MENU[1], 2), CartLine(FALLBACK_MENU[7], 1)>>
           /\ total_price' = 1797)]_vars

\* whether no name the stages of extract_order_items produce for the message
\* resolves to a menu item: the text patterns resolve none, and the
\* completion o lists names of which find_menu_item finds none
NoNameResolves(user_message, o) ==
    /\ TextItems(user_message) = <<>>
    /\ o # NoCall
    /\ ~o.raises
    /\ ~Malformed(o)
    /\ DocumentOf(o).value.items # <<>>
    /\ \A i \in 1..Len(DocumentOf(o).value.items) :
            FindKnownMenuItem(DocumentOf(o).value.items[i].name) = NoMenuItem

\* C12: an order_placement message whose item names resolve to no menu item
\* leaves the cart lines and total_price unchanged.
C12_UnresolvedLeavesCart ==
    [][(/\ last'.op = "handle_user_input"
        /\ last'.intent = "order_placement"
        /\ NoNameResolves(last'.user_message, last'.o2))
       => (order' = order /\ total_price' = total_price)]_vars

C12_Witness ==
    /\ last.op = "handle_user_input"
    /\ last.intent = "order_placement"
    /\ last.user_message = "I want a Moon Burger"
    /\ NoNameResolves(last.user_message, last.o2)
    /\ last.response = CouldNotIdentify
    /\ Len(order) = 2

\* whether the completion o reports an update with a quantity and no item name
UnnamedUpdate(o) ==
    /\ o # NoCall
    /\ ~o.raises
    /\ DocumentOf(o).ok
    /\ {"is_update", "item_name", "quantity"} \subseteq DOMAIN DocumentOf(o).value
    /\ DocumentOf(o).value.is_update
    /\ ~Truthy(DocumentOf(o).value.item_name)
    /\ DocumentOf(o).value.quantity # None

\* the one line of the order with the quantity q set: gone for q <= 0
OneLineUpdated(lines, q) ==
    IF q <= 0 THEN <<>> ELSE <<[lines[1] EXCEPT !.quantity = q]>>

\* C16: in the quantity_update branch with a quantity and no item name, a
\* cart of exactly one line has that line updated; with no line or more than
\* one line process_message returns the request to name the item and the
\* cart is unchanged.
C16_UnnamedUpdateTargets ==
    [][(/\ last'.op = "handle_user_input"
        /\ last'.intent = "quantity_update"
        /\ UnnamedUpdate(last'.o2))
       => IF Len(order) = 1
          THEN order' = OneLineUpdated(order, DocumentOf(last'.o2).value.quantity)
          ELSE /\ last'.response = NotSureWhichToChange
               /\ order' = order
               /\ total_price' = total_price]_vars

-----------------------------------------------------------------------------
(* Properties of finalize_order and clear_order *)

\* C17: finalize_order on a non-empty cart calls save_order and clears the
\* cart exactly when save_order returned an identifier; when it returned
\* None the lines and total_price are unchanged; on an empty cart
\* save_order is not called and nothing changes.
C17_ClearsOnlyWhenSaved ==
    [][last'.op = "finalize_order" =>
        IF order = <<>>
        THEN /\ ~last'.save_order_called
             /\ UNCHANGED <<order, total_price, update_sidebar>>
        ELSE /\ last'.save_order_called
             /\ last'.order_id # "" => (order' = <<>> /\ total_price' = 0)
             /\ last'.order_id = "" => (order' = order /\ total_price' = total_price)]_vars

C17_Witness ==
    /\ last.op = "finalize_order"
    /\ last.save_order_called
    /\ last.order_id # ""
    /\ order = <<>>
    /\ last.response = "Thank you for your order! Your order ID is: " \o last.order_id

\* C18: from any cart, clear_order leaves no lines and a total_price of
\* exactly 0, and get_order_summary then returns the empty-order message.
C18_ClearOrderEmpties ==
    [][last'.op = "clear_order" =>
        /\ order' = <<>>
        /\ total_price' = 0
        /\ GetOrderSummary(Cart(order', total_price', update_sidebar'))
              = [text |-> EmptyOrderMessage, raised |-> FALSE]]_vars

C18_Witness ==
    /\ last.op = "clear_order"
    /\ last.response = "Your order has been cleared."
    /\ order = <<>>
    /\ total_price = 0
    /\ GetOrderSummary(Cart(order, total_price, update_sidebar)).text = EmptyOrderMessage

-----------------------------------------------------------------------------
(* Properties of get_llm *)

\* C19: the key of the session, when set, is the one the completions are
\* asked with, even if the environment has a key; the environment's key is
\* used when it is the only one; with neither, process_message returns the
\* please-provide-a-key message without a completion call, without an
\* exception and without a change of the cart.
C19_CredentialResolution ==
    [][last'.op = "handle_user_input" =>
        /\ openai_api_key # "" => last'.llm = openai_api_key
        /\ (openai_api_key = "" /\ OPENAI_API_KEY # "") => last'.llm = OPENAI_API_KEY
        /\ (openai_api_key = "" /\ OPENAI_API_KEY = "") =>
              /\ last'.response = ProvideKeyNotice
              /\ last'.o1 = NoCall /\ last'.o2 = NoCall /\ last'.o3 = NoCall
              /\ ~last'.failed
              /\ order' = order /\ total_price' = total_price]_vars

C19_Witness ==
    /\ last.op = "handle_user_input"
    /\ openai_api_key = "sk-user"
    /\ OPENAI_API_KEY = "sk-env"
    /\ last.llm = "sk-user"
    /\ last.o1 # NoCall

-----------------------------------------------------------------------------
(* Properties of get_all_menu_items *)

\* C20: get_all_menu_items never raises and never returns an empty menu;
\* when it asks the store and the store cannot be reached, raises in
\* get_db or in the query, or has no items, it returns the built-in menu.
C20_MenuNeverEmpty ==
    [][last'.op = "get_all_menu_items" =>
        /\ ~last'.raised
        /\ last'.result # <<>>
        /\ (/\ Consulted(cache_data, menu_cache)
            /\ \/ last'.db.kind \in {"no db", "get_db raises", "find raises"}
               \/ last'.db.all_items = <<>>)
           => last'.result = FALLBACK_MENU]_vars

C20_Witness ==
    /\ last.op = "get_all_menu_items"
    /\ last.consulted
    /\ last.db = FindRaises
    /\ ~last.raised
    /\ last.result = FALLBACK_MENU
    /\ menu_cache = FALLBACK_MENU

-----------------------------------------------------------------------------
(* Properties of find_menu_item *)

\* the name find_menu_item compares the items with
Asked(item_name) == Strip(Lower(item_name))

\* the tiers of an item for a name: equal, one contained in the other, one
\* set of words within the other, words shared above the threshold
ExactTier(name, item) == Lower(item.name) = name

SubstringTier(name, item) ==
    Contains(name, Lower(item.name)) \/ Contains(Lower(item.name), name)

TokenSetTier(name, item) ==
    \/ Words(name) \subseteq Words(Lower(item.name))
    \/ Words(Lower(item.name)) \subseteq Words(name)

SharedWords(name, item) == Cardinality(Words(name) \cap Words(Lower(item.name)))

PartialTier(name, item) ==
    40 * SharedWords(name, item)
        > Threshold * Max(Cardinality(Words(name)), Cardinality(Words(Lower(item.name))))

\* the best tier an item of the menu has for the name: 1 exact, 2 substring,
\* 3 token set, 4 partial, 5 none
TierOf(name, item) ==
    IF ExactTier(name, item) THEN 1
    ELSE IF SubstringTier(name, item) THEN 2
    ELSE IF TokenSetTier(name, item) THEN 3
    ELSE IF PartialTier(name, item) THEN 4
    ELSE 5

BestTier(name, all_items) ==
    SetMin({5} \cup {TierOf(name, all_items[i]) : i \in DOMAIN all_items})

IsItemOf(all_items, item) == \E i \in DOMAIN all_items : all_items[i] = item

\* C21: find_menu_item returns an item of the best tier the menu has for the
\* name - exact before substring containment, substring containment before
\* token set, token set before partial overlap - and None only when no item
\* is in any tier.
C21_TierOrder ==
    (last.op = "find_menu_item" /\ last.item_name # "") =>
        IF BestTier(Asked(last.item_name), last.all_items) = 5
        THEN last.result = NoMenuItem
        ELSE /\ IsItemOf(last.all_items, last.result)
             /\ TierOf(Asked(last.item_name), last.result)
                  = BestTier(Asked(last.item_name), last.all_items)

\* a token-set item is returned although an item of partial overlap comes
\* before it in the menu
C21_Witness ==
    /\ last.op = "find_menu_item"
    /\ last.item_name = "bacon avocado burger"
    /\ Len(last.all_items) >= 2
    /\ TierOf(Asked(last.item_name), last.all_items[1]) = 4
    /\ TierOf(Asked(last.item_name), last.result) = 3

\* the first item of the menu in substring containment with the name, 0 if none
FirstSubstringItem(name, all_items) ==
    SetMin({Len(all_items) + 1}
           \cup {i \in DOMAIN all_items : SubstringTier(name, all_items[i])}) % (Len(all_items) + 1)

\* C22: when no item's name equals the name asked for and some item is in
\* substring containment with it (the name within the item's name, or the
\* item's name within the name), find_menu_item returns the first such item
\* in the order of the menu.
C22_FirstSubstringItem ==
    (/\ last.op = "find_menu_item"
     /\ last.item_name # ""
     /\ BestTier(Asked(last.item_name), last.all_items) = 2)
    => last.result
         = last.all_items[FirstSubstringItem(Asked(last.item_name), last.all_items)]

-----------------------------------------------------------------------------
(* Properties of the branches of process_message *)

\* C23: with a key available, a message that contains "menu" in any case
\* gets the menu as its response, classify_intent is not called for it and
\* the cart is unchanged.
C23_MenuBypassesClassifier ==
    [][(/\ last'.op \in {"handle_user_input", "app_process_message"}
        /\ last'.llm # ""
        /\ Contains("menu", Lower(last'.user_message)))
       => (/\ last'.response \in {DisplayFormattedMenu, AppMenuReply(menu_cache)}
           /\ last'.o1 = NoCall
           /\ ~last'.failed
           /\ order' = order
           /\ total_price' = total_price)]_vars

\* the names of the completion's items that find_menu_item does not find
Unresolved(o) ==
    {DocumentOf(o).value.items[i].name : i \in
        {j \in 1..Len(DocumentOf(o).value.items) :
            FindKnownMenuItem(DocumentOf(o).value.items[j].name) = NoMenuItem}}

\* C24: in the order_placement branch every requested name that resolves to
\* no menu item is reported as not found in the response - by its name, or
\* by the reply that no item could be identified when nothing was added -
\* also when other items of the message were added.
C24_UnresolvedReported ==
    [][(/\ last'.op = "handle_user_input"
        /\ last'.intent = "order_placement"
        /\ TextItems(last'.user_message) = <<>>
        /\ WellFormed(last'.o2))
       => \/ \A name \in Unresolved(last'.o2) : Contains(name, last'.response)
          \/ last'.response = CouldNotIdentify /\ order' = order]_vars

-----------------------------------------------------------------------------
(* Properties of the quantities extract_order_items_from_text reads *)

\* the spelled-out quantities, each at the index that is its value
QuantityWords == <<"one", "two", "three", "four", "five", "six", "seven", "eight",
                   "nine", "ten">>

\* the value of the quantity word in the message, 0 if it has none of
\* "two" ... "ten"
SpelledQuantity(user_message) ==
    SetMax({0} \cup {n \in 2..10 : QuantityWords[n] \in Words(Lower(user_message))})

HasDigit(user_message) == \E i \in 1..Len(user_message) : IsDigit(CharAt(user_message, i))

\* C25: an item introduced by a spelled-out quantity word ("two" ... "ten")
\* is extracted with the value of the word as its quantity; with no
\* quantity token the quantity is 1.
C25_SpelledQuantity ==
    (/\ last.op = "extract_order_items"
     /\ ~last.llm_stage
     /\ ~HasDigit(last.user_message))
    => \A i \in 1..Len(last.result.xs) :
          last.result.xs[i].quantity
            = IF SpelledQuantity(last.user_message) # 0
              THEN SpelledQuantity(last.user_message) ELSE 1

-----------------------------------------------------------------------------
(* Properties of the line update_order_quantity and remove_from_order pick *)

\* the lines after a call that acts on line i only
ActedOn(lines, i, op, quantity) ==
    IF op = "remove_from_order" \/ quantity <= 0 THEN Pop(lines, i)
    ELSE [lines EXCEPT ![i].quantity = quantity]

\* the search terms and the names of the catalog that contain them in any
\* case, computed once
ContainingNames ==
    {p \in SearchTerms \X {item.name : item \in CartCatalog} :
        Contains(Lower(p[1]), Lower(p[2]))}

\* the first line whose name contains the term, 0 if none
FirstMatching(lines, term) ==
    SetMin({Len(lines) + 1}
           \cup {i \in 1..Len(lines) : <<term, lines[i].name>> \in ContainingNames})
        % (Len(lines) + 1)

\* the call has acted on line i, if there is one, and on no other
ActsOn(lines, after, i, op, quantity) ==
    i # 0 => after = ActedOn(lines, i, op, quantity)

\* C26: update_order_quantity and remove_from_order act on one line, the
\* first in insertion order whose name contains the search term in any
\* case, and on no later line that contains it too.
C26_FirstMatchingLine ==
    [][last'.op \in {"update_order_quantity", "remove_from_order"}
       => ActsOn(order, order', FirstMatching(order, last'.item_name),
                 last'.op, last'.quantity)]_vars

\* a line that contains the term is still there after a removal
C26_Witness ==
    /\ last.op = "remove_from_order"
    /\ last.item_name = "cheeseburger"
    /\ last.response # NotFoundInOrder(last.item_name)
    /\ order # <<>>
    /\ order[1] = CartLine(FALLBACK_MENU[6], 1)

\* the search terms and the names of the catalog equal to them in any case
EqualNames ==
    {p \in SearchTerms \X {item.name : item \in CartCatalog} : Lower(p[1]) = Lower(p[2])}

\* the line whose full name is the term, 0 if none (names are not repeated)
NamedLine(lines, term) ==
    SetMin({Len(lines) + 1}
           \cup {i \in 1..Len(lines) : <<term, lines[i].name>> \in EqualNames})
        % (Len(lines) + 1)

\* C28: update_order_quantity or remove_from_order called with the full
\* name of a line, in any case, changes that line and no other, even when
\* the name of an earlier line contains it.
C28_FullNameLine ==
    [][last'.op \in {"update_order_quantity", "remove_from_order"}
       => ActsOn(order, order', NamedLine(order, last'.item_name),
                 last'.op, last'.quantity)]_vars

-----------------------------------------------------------------------------
(* Properties of retry *)

\* the first invocation that returns, 0 if none of the first n does
FirstReturn(outcomes, n) ==
    IF \E k \in 1..n : outcomes[k] # Raises
    THEN SetMin({k \in 1..n : outcomes[k] # Raises})
    ELSE 0

\* C27: a function wrapped with retry(max_attempts = n) is invoked at most
\* n times per call, for every integer n: the call returns the result of
\* the first invocation that returns and invokes no more, and after the
\* n-th failure in a row it raises that failure and invokes no more.
C27_AtMostMaxAttempts ==
    last.op = "retry" =>
        /\ last.invoked <= last.max_attempts
        /\ IF FirstReturn(last.outcomes, last.max_attempts) # 0
           THEN /\ ~last.raised
                /\ last.invoked = FirstReturn(last.outcomes, last.max_attempts)
                /\ last.result = last.outcomes[last.invoked]
           ELSE /\ last.raised
                /\ last.invoked = last.max_attempts

-----------------------------------------------------------------------------
(* Properties of the cart across a message *)

\* the intents whose branches call a function that changes the cart
CartIntents == {"quantity_update", "order_placement", "remove_item"}

\* the replies that ask the user to say it again, or that nothing was found
Clarifications ==
    {NotSureWhichToChange, CouldNotIdentify, NotSureWhichAsked, NotSureWhichToRemove}

IsClarification(response) ==
    response \in Clarifications \/ StartsWith(response, "I couldn't find '")

\* C29: a message handled by a read-only branch of process_message - the
\* menu, cart_inquiry, price_inquiry, general_question or a label that is
\* none of the intents, and every clarification or not-found reply - leaves
\* the lines of the cart and total_price as they were, whatever the
\* external calls did.
C29_ReadOnlyBranches ==
    [][(/\ last'.op = "handle_user_input"
        /\ \/ last'.intent \notin CartIntents
           \/ IsClarification(last'.response))
       => (order' = order /\ total_price' = total_price)]_vars

C29_Witness ==
    /\ last.op = "handle_user_input"
    /\ last.intent = "cart_inquiry"
    /\ ~last.failed
    /\ Len(order) = 2
    /\ last.response = GetOrderSummary(Cart(order, total_price, update_sidebar)).text

\* the quantity of the line of this name, 0 if the order has no such line
QuantityIn(lines, name) ==
    IF \E i \in 1..Len(lines) : lines[i].name = name
    THEN (CHOOSE l \in {lines[i] : i \in 1..Len(lines)} : l.name = name).quantity
    ELSE 0

RECURSIVE PriceOfItems(_, _)
PriceOfItems(items, i) ==
    IF i > Len(items) THEN 0
    ELSE FindKnownMenuItem(items[i].name).price * items[i].quantity
         + PriceOfItems(items, i + 1)

\* the lines of the order whose names are none of the items'
OtherLines(lines, items) ==
    SelectSeq(lines, LAMBDA l : \A i \in 1..Len(items) : items[i].name # l.name)

\* the order and the total after the items were added, and the reply
AddedExactly(items, lines, after, total, total_after, response) ==
    /\ \A i \in 1..Len(items) :
            QuantityIn(after, items[i].name)
                = QuantityIn(lines, items[i].name) + items[i].quantity
    /\ OtherLines(after, items) = OtherLines(lines, items)
    /\ total_after = total + PriceOfItems(items, 1)
    /\ Contains("**Your current total is $" \o Money(total_after) \o "**", response)

\* C30: after an order_placement message that succeeded, each extracted
\* item's quantity in the cart has grown by the quantity extracted, no other
\* line has changed, total_price has grown by the sum of price * quantity,
\* and the total in the confirmation is the cart's total_price.
C30_PlacementAddsExactly ==
    [][(/\ last'.op = "handle_user_input"
        /\ last'.intent = "order_placement"
        /\ ~last'.failed
        /\ StartsWith(last'.response, "**Order Added Successfully**"))
       => AddedExactly(ExtractOrderItems(last'.llm, last'.user_message, last'.o2).xs,
                       order, order', total_price, total_price', last'.response)]_vars

C30_Witness ==
    /\ last.op = "handle_user_input"
    /\ last.intent = "order_placement"
    /\ ~last.failed
    /\ last.o2 = Reply(ItemsBurger1Fries1)
    /\ order = <<CartLine(FALLBACK_MENU[7], 3), CartLine(FALLBACK_MENU[1], 1)>>
    /\ total_price = 3 * 399 + 699
    /\ Contains("**Your current total is $18.96**", last.response)

====
